---- MODULE Spec2Model ----
(***************************************************************************)
(* A model of PulseTrader's data layer: the SQLite bar cache               *)
(* (stock_cache.py), the data provider that refreshes it                   *)
(* (stock_data_provider.py) and the indicator storage                      *)
(* (indicators_storage.py, supertrend_component.py).                       *)
(*                                                                         *)
(* Dates are day ordinals (integers); the texts 'YYYYMMDD' and             *)
(* 'YYYY-MM-DD' the code stores order exactly as the ordinals do.          *)
(* Weekday(d) is Python's date.weekday(): 0 = Monday .. 6 = Sunday.        *)
(* A DataFrame is a sequence of rows; a table is the set of its rows.      *)
(* A bar's open/high/low/close/volume are carried as one value, close:     *)
(* save_to_cache copies each of them with float()/int(), which leave the   *)
(* source's floats and integer volumes as they are.                        *)
(*                                                                         *)
(* The provider hands a market_type argument on to get_cached_data and     *)
(* save_to_cache; the store's methods do not use one and are modelled by   *)
(* their bodies.                                                           *)
(***************************************************************************)
EXTENDS Integers, Sequences, FiniteSets, TLC

VARIABLES
    today,                \* datetime.today()
    published,            \* the days for which the market-data source has a bar
    trading_calendar,     \* table trading_calendar: the set of trade_date
    stock_data,           \* table stock_data: rows [symbol, date, close]
    lastCall,             \* the get_stock_data call just made (NoCall if none)
    latest,               \* per (symbol, date): the close of the last save holding it
    lastSave,             \* the save_to_cache call just made (NoSave if none)
    technical_indicators, \* table technical_indicators
    rsi_divergences,      \* table rsi_divergences (committed rows)
    trend_signals,        \* table trend_signals (committed rows)
    lastOp,               \* the indicator-store operation just made (NoOp if none)
    enhanced_df,          \* the bar history handed to _calculate_trend_signals
    signals_list,         \* its result (Pending until it has run)
    rsi_call,             \* a calculate_rsi call: its arguments and what came of it
    divergence_call,      \* a detect_rsi_divergence call, likewise
    provider,             \* the provider's two directory caches and table stock_info
    lookup,               \* a get_stock_symbol / get_stock_info call and its outcome
    session,              \* the interactive loop of main and the last analyze_stock call
    volume_call,          \* a calculate_volume_indicators call: its frame and its result
    summary_call,         \* a get_latest_indicators call: its symbol and its result
    refresh_call,         \* a _needs_update_with_trading_calendar call and its result
    validity_call,        \* an is_valid_divergence call: its arguments and its result
    extrema_call          \* a find_peaks_troughs call: its arguments and its result

cacheVars == <<today, published, trading_calendar, stock_data, lastCall, latest, lastSave>>
indicatorVars == <<technical_indicators, rsi_divergences, trend_signals, lastOp>>
signalVars == <<enhanced_df, signals_list>>
functionVars == <<volume_call, summary_call, refresh_call, validity_call, extrema_call>>
analysisVars == <<rsi_call, divergence_call, provider, lookup, session, functionVars>>
vars == <<cacheVars, indicatorVars, signalVars, analysisVars>>

-----------------------------------------------------------------------------
(* Bounds of the model and the program's constants *)

FirstDay == 402
LastDay == 405
ModelDays == FirstDay..LastDay
\* bars the source already has when the model starts (a Friday and a Wednesday)
OldDays == {200, 380}
Symbols == {"000001", "00700"}
\* '1年', '半年', '1季度', '1月'
period_mapping == [p \in {"1y", "6m", "1q", "1m"} |->
                     CASE p = "1y" -> 365 [] p = "6m" -> 180
                       [] p = "1q" -> 90 [] OTHER -> 30]
DefaultDays == 365
Periods == {"1y", "1m"}
NoDate == -1

Weekday(d) == d % 7

-----------------------------------------------------------------------------
(* Sequences and sorting *)

Range(s) == {s[i] : i \in DOMAIN s}

RECURSIVE SortedSeq(_)
\* the elements of a set of integers, ascending
SortedSeq(S) ==
    IF S = {} THEN <<>>
    ELSE LET m == CHOOSE x \in S : \A y \in S : x <= y
         IN  <<m>> \o SortedSeq(S \ {m})

Dates(df) == {df[i].date : i \in DOMAIN df}

RECURSIVE drop_duplicates(_)
\* DataFrame.drop_duplicates(subset=['日期']): the first row of each date is kept
drop_duplicates(df) ==
    IF df = <<>> THEN <<>>
    ELSE LET n == Len(df)
             init == drop_duplicates(SubSeq(df, 1, n - 1))
         IN  IF df[n].date \in Dates(init) THEN init ELSE Append(init, df[n])

RECURSIVE sort_values(_)
\* DataFrame.sort_values('日期'): ascending dates, rows of one date in their order
sort_values(df) ==
    IF df = <<>> THEN <<>>
    ELSE LET m == CHOOSE i \in DOMAIN df :
                    \A j \in DOMAIN df :
                        df[i].date < df[j].date \/ (df[i].date = df[j].date /\ i <= j)
             rest == [k \in 1..(Len(df) - 1) |-> IF k < m THEN df[k] ELSE df[k + 1]]
         IN  <<df[m]>> \o sort_values(rest)

\* df[df['日期'] >= start_date]
FilterFrom(df, start_date) == SelectSeq(df, LAMBDA r : r.date >= start_date)

-----------------------------------------------------------------------------
(* The market-data source (akshare) *)

SourceClose(sym, d) == (IF sym = "000001" THEN 1 ELSE 4) + (d % 3)
SourceBar(sym, d) == [date |-> d, close |-> SourceClose(sym, d)]

\* ak.tool_trade_date_hist_sina(): every trading day, past and coming
SinaTradeDates == {d \in OldDays \cup ModelDays : Weekday(d) < 5}

\* ak.stock_zh_a_hist / ak.stock_hk_hist: the bars of [start_date, end_date], ascending
get_stock_data_by_market(pub, sym, start_date, end_date) ==
    LET ds == SortedSeq({d \in pub : start_date <= d /\ d <= end_date})
    IN  [i \in DOMAIN ds |-> SourceBar(sym, ds[i])]

-----------------------------------------------------------------------------
(* StockDataCache: table stock_data *)

\* an INSERT into a table that has no UNIQUE(symbol, date)
InsertInto(table, row) == table \cup {row}

\* REPLACE INTO stock_data under UNIQUE(symbol, date): the row of the same key goes
ReplaceInto(table, row) ==
    {r \in table : ~(r.symbol = row.symbol /\ r.date = row.date)} \cup {row}

RECURSIVE executemany_replace(_, _)
executemany_replace(table, rows) ==
    IF rows = <<>> THEN table
    ELSE executemany_replace(ReplaceInto(table, Head(rows)), Tail(rows))

save_to_cache(table, symbol, df) ==
    IF df = <<>> THEN table
    ELSE LET sorted == sort_values(df)
             data_to_insert ==
                 [i \in DOMAIN sorted |->
                     [symbol |-> symbol, date |-> sorted[i].date, close |-> sorted[i].close]]
         IN  executemany_replace(table, data_to_insert)

\* SELECT ... WHERE symbol = ? AND date BETWEEN ? AND ? ORDER BY date ASC
get_cached_data(table, symbol, start_date, end_date) ==
    LET rows == {r \in table : r.symbol = symbol /\ start_date <= r.date /\ r.date <= end_date}
        keys == SortedSeq({r.date * 100 + r.close : r \in rows})
    IN  [i \in DOMAIN keys |-> [date |-> keys[i] \div 100, close |-> keys[i] % 100]]

\* SELECT MAX(date) FROM stock_data WHERE symbol = ?
get_last_cached_date(table, symbol) ==
    LET ds == {r.date : r \in {x \in table : x.symbol = symbol}}
    IN  IF ds = {} THEN NoDate ELSE CHOOSE d \in ds : \A e \in ds : e <= d

\* SELECT trade_date ... WHERE trade_date <= ? ORDER BY trade_date DESC LIMIT 1
get_last_trading_day(cal, before_date) ==
    LET ds == {d \in cal : d <= before_date}
    IN  IF ds = {} THEN NoDate ELSE CHOOSE d \in ds : \A e \in ds : e <= d

is_trading_day(cal, d) == d \in cal

-----------------------------------------------------------------------------
(* StockDataProvider *)

PeriodDays(period) ==
    IF period \in DOMAIN period_mapping THEN period_mapping[period] ELSE DefaultDays

\* mutant: the last cached date against today, whatever the calendar
needs_update_with_trading_calendar_Today(table, cal, symbol, now) ==
    LET last_date == get_last_cached_date(table, symbol)
    IN  [need |-> last_date < now, last |-> last_date]

needs_update_with_trading_calendar(table, cal, symbol, now) ==
    LET last_date == get_last_cached_date(table, symbol)
        last_trading_day == get_last_trading_day(cal, now)
    IN  IF last_date = NoDate THEN [need |-> TRUE, last |-> NoDate]
        ELSE IF last_trading_day = NoDate
             THEN IF Weekday(now) < 5
                  THEN [need |-> last_date < now, last |-> last_date]
                  ELSE [need |-> FALSE, last |-> last_date]
        ELSE [need |-> last_date < last_trading_day, last |-> last_date]

\* incremental_update returning the new rows alone, the cached rows not merged in
incremental_update_NoMerge(table, pub, symbol, last_cached_date, end_date, cached_df, start_date, netFail) ==
    IF netFail THEN [raised |-> TRUE, df |-> <<>>, table |-> table]
    ELSE
    LET new_df == get_stock_data_by_market(pub, symbol, last_cached_date + 1, end_date)
    IN  [raised |-> FALSE,
         df |-> FilterFrom(IF new_df # <<>> THEN new_df ELSE cached_df, start_date),
         table |-> IF new_df # <<>> THEN save_to_cache(table, symbol, new_df) ELSE table]

\* incremental_update dropping the symbol's stale rows before it fetches
incremental_update_ClearFirst(table, pub, symbol, last_cached_date, end_date, cached_df, start_date, netFail) ==
    LET cleared == {r \in table : r.symbol # symbol}
        new_df == get_stock_data_by_market(pub, symbol, last_cached_date + 1, end_date)
        all_df == get_stock_data_by_market(pub, symbol, start_date, end_date)
    IN  IF netFail THEN [raised |-> TRUE, df |-> <<>>, table |-> cleared]
        ELSE [raised |-> FALSE,
              df |-> IF new_df # <<>>
                     THEN FilterFrom(sort_values(drop_duplicates(cached_df \o new_df)), start_date)
                     ELSE cached_df,
              table |-> IF new_df # <<>> THEN save_to_cache(table, symbol, new_df) ELSE table]

\* a fetch that raises leaves before save_to_cache is reached
incremental_update(table, pub, symbol, last_cached_date, end_date, cached_df, start_date, netFail) ==
    IF netFail THEN [raised |-> TRUE, df |-> <<>>, table |-> table]
    ELSE
    LET update_start_date == last_cached_date + 1
        new_df == get_stock_data_by_market(pub, symbol, update_start_date, end_date)
        df == IF new_df # <<>>
              THEN IF cached_df # <<>>
                   THEN sort_values(drop_duplicates(cached_df \o new_df))
                   ELSE new_df
              ELSE cached_df
    IN  [raised |-> FALSE,
         df |-> FilterFrom(df, start_date),
         table |-> IF new_df # <<>> THEN save_to_cache(table, symbol, new_df) ELSE table]

full_update(table, pub, symbol, start_date, end_date, netFail) ==
    IF netFail THEN [raised |-> TRUE, df |-> <<>>, table |-> table]
    ELSE
    LET df == get_stock_data_by_market(pub, symbol, start_date, end_date)
    IN  [raised |-> FALSE, df |-> df,
         table |-> IF df # <<>> THEN save_to_cache(table, symbol, df) ELSE table]

\* get_stock_data without its except clause: the fetch's exception leaves the call
HandleFetchException_Reraise(cached_df) == [raised |-> TRUE, result |-> <<>>]

\* except Exception: the cached rows if any, else an empty DataFrame
HandleFetchException(cached_df) ==
    [raised |-> FALSE, result |-> IF cached_df # <<>> THEN cached_df ELSE <<>>]

get_stock_data(table, cal, pub, now, symbol, period, netFail) ==
    LET days == PeriodDays(period)
        start_date == now - days
        last_trading_day == get_last_trading_day(cal, now)
        end_date == IF last_trading_day # NoDate THEN last_trading_day ELSE now
        nu == needs_update_with_trading_calendar(table, cal, symbol, now)
        cached_df == get_cached_data(table, symbol, start_date, end_date)
        incremental == nu.need /\ nu.last # NoDate
        upd == IF incremental
               THEN incremental_update(table, pub, symbol, nu.last, end_date,
                                       cached_df, start_date, netFail)
               ELSE full_update(table, pub, symbol, start_date, end_date, netFail)
        handled == HandleFetchException(cached_df)
        base == [start |-> start_date, end |-> end_date, last |-> nu.last]
    IN  IF cached_df # <<>> /\ ~nu.need
        THEN base @@ [result |-> cached_df, table |-> table, netCalls |-> 0,
                      failed |-> FALSE, raised |-> FALSE, fetchFrom |-> NoDate]
        ELSE base @@ [result |-> IF upd.raised THEN handled.result ELSE upd.df,
                      table |-> upd.table, netCalls |-> 1,
                      failed |-> netFail,
                      raised |-> IF upd.raised THEN handled.raised ELSE FALSE,
                      fetchFrom |-> IF incremental THEN nu.last + 1 ELSE start_date]

-----------------------------------------------------------------------------
(* The provider with its source and clock *)

NoCall == [symbol |-> "none", period |-> "none", seq |-> 0, prior |-> "none", result |-> <<>>,
           netCalls |-> 0, failed |-> FALSE, raised |-> FALSE, fetchFrom |-> NoDate,
           start |-> NoDate, end |-> NoDate, last |-> NoDate]
NoSave == [symbol |-> "none", df |-> <<>>]
NoLatest == [k \in Symbols \X (OldDays \cup ModelDays) |-> 0]
NoOp == [op |-> "none", symbol |-> "none", raised |-> FALSE, failAt |-> 0, bars |-> 0,
         indicators |-> <<>>, divergences |-> <<>>, signals |-> <<>>]
Pending == <<[date |-> NoDate, signal_type |-> "pending", price |-> 0, trend_value |-> 0]>>
\* no calculate_rsi call in hand
NoRsiCall == [data |-> <<>>, period |-> 1, state |-> "none", rsi |-> <<>>]
\* no detect_rsi_divergence call in hand
NoDivergenceCall == [price_data |-> <<>>, rsi |-> <<>>, state |-> "none", divergences |-> <<>>]
\* a provider as constructed (_stock_info_cache and _hk_stock_info_cache are
\* None) over an empty table stock_info
NotLoaded == [loaded |-> FALSE, rows |-> <<>>]
NewProvider == [a |-> NotLoaded, hk |-> NotLoaded, stock_info |-> <<>>, fresh |-> FALSE]
NoLookup == [op |-> "none", stock_name |-> <<>>, market_type |-> "none", raised |-> "none",
             result |-> <<>>, market |-> "none", searched |-> <<>>]
ResolveIdle == provider = NewProvider /\ lookup = NoLookup
\* no analyze_stock call made, main not started
NoAnalysis == [seq |-> 0, stock_name |-> <<>>, symbol |-> <<>>, market_type |-> "none",
               resolved |-> "none", bars |-> 0, stage |-> "none", outcome |-> "none",
               summary |-> FALSE, chart |-> FALSE]
NoVolumeCall == [df |-> <<>>, state |-> "none", data |-> <<>>]
\* result: <<>> for None, else the summary as the one element
NoSummaryCall == [symbol |-> "none", state |-> "none", result |-> <<>>]
NoRefreshCall == [symbol |-> "none", state |-> "none", need |-> FALSE, last |-> NoDate]
NoValidityCall == [price_data |-> <<>>, rsi_data |-> <<>>, divergence_type |-> "none",
                   timeframe |-> "none", state |-> "none", valid |-> FALSE]
NoExtremaCall == [series |-> <<>>, window |-> 1, min_distance |-> 0, state |-> "none",
                  peaks |-> <<>>, troughs |-> <<>>]
PureIdle == validity_call = NoValidityCall /\ extrema_call = NoExtremaCall
FunctionsIdle ==
    /\ volume_call = NoVolumeCall /\ summary_call = NoSummaryCall
    /\ refresh_call = NoRefreshCall /\ PureIdle
NoSession == [pc |-> "start", event |-> "none", answer |-> "none", analysis |-> NoAnalysis]
AnalysisIdle ==
    /\ rsi_call = NoRsiCall
    /\ divergence_call = NoDivergenceCall
    /\ ResolveIdle
    /\ session = NoSession
    /\ FunctionsIdle

Init ==
    /\ today = FirstDay
    /\ published = OldDays
    /\ trading_calendar \in {{}, SinaTradeDates}
    /\ stock_data = {}
    /\ lastCall = NoCall
    /\ latest = NoLatest
    /\ lastSave = NoSave
    /\ technical_indicators = {} /\ rsi_divergences = {} /\ trend_signals = {}
    /\ lastOp = NoOp
    /\ enhanced_df = <<>> /\ signals_list = Pending
    /\ AnalysisIdle

\* A provider is constructed (every run of the program does): _init_trading_calendar
\* fetches and stores the calendar, or the fetch fails and the table stays as it is
InitTradingCalendar ==
    /\ \E ok \in BOOLEAN :
          trading_calendar' = IF ok THEN SinaTradeDates ELSE trading_calendar
    /\ lastCall' = NoCall
    /\ UNCHANGED <<today, published, stock_data, latest, lastSave>>
    /\ UNCHANGED <<indicatorVars, signalVars, analysisVars>>

\* time passes
AdvanceDay ==
    /\ \E d \in ModelDays : d > today /\ today' = d
    /\ lastCall' = NoCall
    /\ UNCHANGED <<published, trading_calendar, stock_data, latest, lastSave>>
    /\ UNCHANGED <<indicatorVars, signalVars, analysisVars>>

\* the source publishes the bar of a trading day once the day's session is over
PublishToday ==
    /\ Weekday(today) < 5
    /\ today \notin published
    /\ published' = published \cup {today}
    /\ lastCall' = NoCall
    /\ UNCHANGED <<today, trading_calendar, stock_data, latest, lastSave>>
    /\ UNCHANGED <<indicatorVars, signalVars, analysisVars>>

GetStockData ==
    \E symbol \in Symbols, period \in Periods, netFail \in BOOLEAN :
        LET out == get_stock_data(stock_data, trading_calendar, published, today,
                                  symbol, period, netFail)
        IN  /\ netFail => out.netCalls = 1
            /\ stock_data' = out.table
            /\ lastCall' = [symbol |-> symbol, period |-> period,
                            seq |-> 1 - lastCall.seq,
                            prior |-> IF lastCall.symbol = symbol /\ lastCall.period = period
                                      THEN (IF lastCall.netCalls = 0 THEN "hit" ELSE "fetched")
                                      ELSE "none",
                            result |-> out.result,
                            netCalls |-> out.netCalls, failed |-> out.failed,
                            raised |-> out.raised, fetchFrom |-> out.fetchFrom,
                            start |-> out.start, end |-> out.end, last |-> out.last]
            /\ UNCHANGED <<today, published, trading_calendar, latest, lastSave>>
            /\ UNCHANGED <<indicatorVars, signalVars, analysisVars>>

Next == InitTradingCalendar \/ AdvanceDay \/ PublishToday \/ GetStockData

Spec == Init /\ [][Next]_vars

-----------------------------------------------------------------------------
(* Properties of get_stock_data *)

\* the step is a get_stock_data call
IsCall == lastCall' # NoCall /\ lastCall'.seq # lastCall.seq
\* the step is a get_stock_data call that follows, with nothing in between, a call
\* for the same symbol and period
IsRepeatedCall ==
    /\ IsCall
    /\ lastCall # NoCall
    /\ lastCall'.symbol = lastCall.symbol
    /\ lastCall'.period = lastCall.period

\* what one fetch of the whole window returns
FullFetch(sym, start_date, end_date) ==
    LET ds == SortedSeq({d \in published : start_date <= d /\ d <= end_date})
    IN  [i \in DOMAIN ds |-> [date |-> ds[i], close |-> SourceClose(sym, ds[i])]]

NoDuplicateDates(df) == \A i, j \in DOMAIN df : i < j => df[i].date < df[j].date

\* the rows of the symbol cached in [start_date, end_date], as a DataFrame must list them
IsCachedWindow(df, table, sym, start_date, end_date) ==
    LET rows == {r \in table : r.symbol = sym /\ start_date <= r.date /\ r.date <= end_date}
    IN  /\ Len(df) = Cardinality(rows)
        /\ NoDuplicateDates(df)
        /\ \A i \in DOMAIN df :
               [symbol |-> sym, date |-> df[i].date, close |-> df[i].close] \in rows

-----------------------------------------------------------------------------
(* The bar store on its own: save_to_cache and clear_cache called with any frames *)

MaxClose == 2
StoreDays == {FirstDay, FirstDay + 1}
StoreBars == [date : StoreDays, close : 1..MaxClose]
\* the frames a caller may hand to save_to_cache: one bar per date, in any order
StoreFrames ==
    {<<>>} \cup {<<b>> : b \in StoreBars}
           \cup {x \in StoreBars \X StoreBars : x[1].date # x[2].date}

\* DELETE FROM stock_data WHERE symbol = ?
clear_cache(table, symbol) == {r \in table : r.symbol # symbol}

InitStore ==
    /\ today = FirstDay
    /\ published = OldDays
    /\ trading_calendar = {}
    /\ stock_data = {}
    /\ lastCall = NoCall
    /\ latest = NoLatest
    /\ lastSave = NoSave
    /\ technical_indicators = {} /\ rsi_divergences = {} /\ trend_signals = {}
    /\ lastOp = NoOp
    /\ enhanced_df = <<>> /\ signals_list = Pending
    /\ AnalysisIdle

SaveToCache ==
    \E symbol \in Symbols, frame \in StoreFrames :
        /\ stock_data' = save_to_cache(stock_data, symbol, frame)
        /\ latest' = [k \in DOMAIN latest |->
                        IF k[1] = symbol /\ \E i \in DOMAIN frame : frame[i].date = k[2]
                        THEN (CHOOSE b \in Range(frame) : b.date = k[2]).close
                        ELSE latest[k]]
        /\ lastSave' = [symbol |-> symbol, df |-> frame]
        /\ UNCHANGED <<today, published, trading_calendar, lastCall>>
        /\ UNCHANGED <<indicatorVars, signalVars, analysisVars>>

ClearCache ==
    \E symbol \in Symbols :
        /\ stock_data' = clear_cache(stock_data, symbol)
        /\ latest' = [k \in DOMAIN latest |-> IF k[1] = symbol THEN 0 ELSE latest[k]]
        /\ lastSave' = NoSave
        /\ UNCHANGED <<today, published, trading_calendar, lastCall>>
        /\ UNCHANGED <<indicatorVars, signalVars, analysisVars>>

NextStore == SaveToCache \/ ClearCache

SpecStore == InitStore /\ [][NextStore]_vars

\* C8: after any sequence of save_to_cache calls the bar table holds at most one
\* row per (symbol, date), that row carries the values of the most recent save
\* that contained the date, a save leaves the rows of other symbols and of dates
\* outside its frame as they were, and saving the same frame again changes nothing.
C8_BarUpsert ==
    /\ [](/\ \A r1, r2 \in stock_data :
                (r1.symbol = r2.symbol /\ r1.date = r2.date) => r1 = r2
          /\ \A r \in stock_data : latest[<<r.symbol, r.date>>] = r.close
          /\ \A k \in DOMAIN latest :
                latest[k] # 0 => \E r \in stock_data : r.symbol = k[1] /\ r.date = k[2]
          /\ lastSave # NoSave =>
                save_to_cache(stock_data, lastSave.symbol, lastSave.df) = stock_data)
    /\ [][lastSave' # NoSave =>
            \A r \in stock_data \cup stock_data' :
                (r.symbol # lastSave'.symbol \/ r.date \notin Dates(lastSave'.df))
                    => (r \in stock_data <=> r \in stock_data')]_vars

\* a save has replaced the close of a stored bar, and rows of other keys stand by
C8_Witness ==
    /\ lastSave # NoSave
    /\ Len(lastSave.df) = 2
    /\ lastSave.df[1].date > lastSave.df[2].date
    /\ Cardinality(stock_data) = 4
    /\ \E r \in stock_data : r.symbol = lastSave.symbol /\ r.close = MaxClose
    /\ \E r \in stock_data : r.symbol # lastSave.symbol /\ r.close = 1

-----------------------------------------------------------------------------
(* supertrend_component.py: trend direction and trend-change positions *)

\* None / NaN of a price column
NoValue == 0
MaxBars == 4
BarDate(i) == FirstDay + i - 1
\* a bar of a history: its close, and the SuperTrend value the stock_indicators
\* library returned for it (NoValue while the indicator warms up)
HistoryBars(i) == [date : {BarDate(i)}, close : {NoValue, 2}, super_trend : {NoValue, 1, 2, 3}]
RECURSIVE HistoriesOfLen(_)
HistoriesOfLen(n) ==
    IF n = 0 THEN {<<>>}
    ELSE {Append(h, b) : h \in HistoriesOfLen(n - 1), b \in HistoryBars(n)}
Histories == UNION {HistoriesOfLen(n) : n \in 0..MaxBars}

\* a trend column without the None guards: a missing value compares as 0
calculate_supertrend_Unguarded(history) ==
    [i \in DOMAIN history |->
        [date |-> history[i].date, close |-> history[i].close,
         super_trend |-> history[i].super_trend,
         trend |-> IF history[i].close > history[i].super_trend THEN 1
                   ELSE IF history[i].close < history[i].super_trend THEN -1
                   ELSE 0]]

\* df_result['trend']: 1 above the SuperTrend line, -1 below it, else 0
calculate_supertrend(history) ==
    [i \in DOMAIN history |->
        [date |-> history[i].date, close |-> history[i].close,
         super_trend |-> history[i].super_trend,
         trend |-> IF history[i].close # NoValue /\ history[i].super_trend # NoValue
                      /\ history[i].close > history[i].super_trend THEN 1
                   ELSE IF history[i].close # NoValue /\ history[i].super_trend # NoValue
                           /\ history[i].close < history[i].super_trend THEN -1
                   ELSE 0]]

\* get_trend_signals that asks for a reversal: the bar before on the other side
get_trend_signals_Reversal(frame) ==
    [b_positions |-> SortedSeq({i \in DOMAIN frame :
                        frame[i].trend = 1 /\ i > 1 /\ frame[i - 1].trend = -1}),
     s_positions |-> SortedSeq({i \in DOMAIN frame :
                        frame[i].trend = -1 /\ i > 1 /\ frame[i - 1].trend = 1})]

\* get_trend_signals without the comparison to the bar before: every bar above
\* the line is a buy position, every bar below it a sell position
get_trend_signals_EveryBar(frame) ==
    [b_positions |-> SortedSeq({i \in DOMAIN frame : frame[i].trend = 1}),
     s_positions |-> SortedSeq({i \in DOMAIN frame : frame[i].trend = -1})]

\* trend.shift(1) is NaN at the first bar, and NaN != 1 and NaN != -1 are True
get_trend_signals(frame) ==
    [b_positions |-> SortedSeq({i \in DOMAIN frame :
                        frame[i].trend = 1 /\ (i = 1 \/ frame[i - 1].trend # 1)}),
     s_positions |-> SortedSeq({i \in DOMAIN frame :
                        frame[i].trend = -1 /\ (i = 1 \/ frame[i - 1].trend # -1)})]

-----------------------------------------------------------------------------
(* indicators_storage.py: the records computed from a history *)

\* ---------------------------------------------------------------------------
\* rsi_component.calculate_rsi
\*
\* Prices are integers.  An RSI value is kept in tenths (0..1000), as the
\* source rounds to one decimal; the Wilder averages are kept exactly, as
\* numerators over the common denominator WilderDen.  NaN is the pandas
\* not-a-number that 0.0/0.0 yields.
\* ---------------------------------------------------------------------------
NaN == -1

\* delta.where(delta > 0, 0): the first delta is NaN and every comparison with
\* NaN is False, so the first gain and the first loss are both 0
gains(data) ==
    [i \in 1..Len(data) |->
        IF i > 1 /\ data[i] - data[i-1] > 0 THEN data[i] - data[i-1] ELSE 0]
losses(data) ==
    [i \in 1..Len(data) |->
        IF i > 1 /\ data[i] - data[i-1] < 0 THEN data[i-1] - data[i] ELSE 0]

RECURSIVE SumTo(_, _)
SumTo(s, n) == IF n = 0 THEN 0 ELSE s[n] + SumTo(s, n - 1)

\* the bar at 0-based index `period` is the 1-based bar period + 1
RECURSIVE WilderDen(_, _)
WilderDen(period, i) ==
    IF i = period + 1 THEN period + 1 ELSE period * WilderDen(period, i - 1)

\* numerator of the smoothed average at the 1-based bar i >= period + 1:
\* the mean of the first period + 1 values, then
\* ((period - 1) * previous + current) / period
RECURSIVE WilderNum(_, _, _)
WilderNum(s, period, i) ==
    IF i = period + 1 THEN SumTo(s, period + 1)
    ELSE (period - 1) * WilderNum(s, period, i - 1) + s[i] * WilderDen(period, i - 1)

\* round() of a / b, halves to the even neighbour
RoundHalfEven(a, b) ==
    LET q == a \div b
        r == a % b
    IN  IF 2 * r > b \/ (2 * r = b /\ q % 2 = 1) THEN q + 1 ELSE q
\* round(1) of 100 * a / b, in tenths
RoundTenths(a, b) == RoundHalfEven(1000 * a, b)

\* rs = avg_gain / avg_loss; rsi = 100 - 100 / (1 + rs):
\*   0 / 0 is NaN and stays NaN; g / 0 with g > 0 is inf and gives 100
RsiValue(avg_gain, avg_loss) ==
    IF avg_loss = 0
    THEN IF avg_gain = 0 THEN NaN ELSE 1000
    ELSE RoundTenths(avg_gain, avg_gain + avg_loss)

\* avg_gains[period] = ... indexes an array of len(data) zeros: IndexError when
\* len(data) <= period.  Below index period both averages stay 0.
calculate_rsi(data, period) ==
    IF Len(data) <= period
    THEN [raised |-> TRUE, rsi |-> <<>>]
    ELSE [raised |-> FALSE,
          rsi |-> [i \in 1..Len(data) |->
                      IF i < period + 1 THEN RsiValue(0, 0)
                      ELSE RsiValue(WilderNum(gains(data), period, i),
                                    WilderNum(losses(data), period, i))]]

\* the dataclass TechnicalIndicators; rsi14, ma10, daily_change_pct and the bands
\* come from components outside this model and are carried as NoValue
TechnicalIndicators(row) ==
    [date |-> row.date, rsi14 |-> NoValue, ma10 |-> NoValue,
     daily_change_pct |-> NoValue, upper_band |-> NoValue, lower_band |-> NoValue,
     trend |-> row.trend, supertrend_value |-> row.super_trend]

\* the dataclass TrendSignal
TrendSignal(row, signal_type) ==
    [date |-> row.date, signal_type |-> signal_type, price |-> row.close,
     trend_value |-> IF row.super_trend # NoValue THEN row.super_trend ELSE 0]

\* _calculate_all_indicators calls calculate_rsi(df, period=14)
RsiPeriod == 14

\* calculate_supertrend, then calculate_rsi, whose IndexError leaves the call
\* before a record is built
calculate_all_indicators(history) ==
    LET frame == calculate_supertrend(history)
        rsi14 == calculate_rsi([i \in DOMAIN frame |-> frame[i].close], RsiPeriod)
    IN  IF rsi14.raised
        THEN [raised |-> TRUE, indicators |-> <<>>, dataframe |-> <<>>]
        ELSE [raised |-> FALSE,
              indicators |-> [i \in DOMAIN frame |-> TechnicalIndicators(frame[i])],
              dataframe |-> frame]

\* the buy signals, then the sell signals, then list.sort by date
calculate_trend_signals(frame) ==
    LET pos == get_trend_signals(frame)
        buy_positions == SelectSeq(pos.b_positions, LAMBDA i : i <= Len(frame))
        sell_positions == SelectSeq(pos.s_positions, LAMBDA i : i <= Len(frame))
        buys == [k \in DOMAIN buy_positions |-> TrendSignal(frame[buy_positions[k]], "buy")]
        sells == [k \in DOMAIN sell_positions |-> TrendSignal(frame[sell_positions[k]], "sell")]
    IN  sort_values(buys \o sells)

-----------------------------------------------------------------------------
(* _calculate_trend_signals on its own, over every history *)

InitSignals ==
    /\ today = FirstDay
    /\ published = OldDays
    /\ trading_calendar = {}
    /\ stock_data = {}
    /\ lastCall = NoCall
    /\ latest = NoLatest
    /\ lastSave = NoSave
    /\ technical_indicators = {} /\ rsi_divergences = {} /\ trend_signals = {}
    /\ lastOp = NoOp
    /\ enhanced_df \in {calculate_supertrend(h) : h \in Histories}
    /\ signals_list = Pending
    /\ AnalysisIdle

CalculateTrendSignals ==
    /\ signals_list = Pending
    /\ signals_list' = calculate_trend_signals(enhanced_df)
    /\ UNCHANGED <<cacheVars, indicatorVars, enhanced_df, analysisVars>>

NextSignals == CalculateTrendSignals

SpecSignals == InitSignals /\ [][NextSignals]_vars

HasSignal(list, d, signal_type) ==
    \E k \in DOMAIN list : list[k].date = d /\ list[k].signal_type = signal_type

\* C10: a buy signal is emitted at bar i (i past the first bar) exactly when the
\* direction of bar i is +1 and that of bar i-1 is not +1, a sell signal exactly
\* when the direction of bar i is -1 and that of bar i-1 is not -1; a bar whose
\* direction is 0 never carries a signal.
C10_TrendSignalExtraction ==
    signals_list # Pending =>
        \A i \in DOMAIN enhanced_df :
            /\ i >= 2 =>
                /\ HasSignal(signals_list, enhanced_df[i].date, "buy")
                      <=> (enhanced_df[i].trend = 1 /\ enhanced_df[i - 1].trend # 1)
                /\ HasSignal(signals_list, enhanced_df[i].date, "sell")
                      <=> (enhanced_df[i].trend = -1 /\ enhanced_df[i - 1].trend # -1)
            /\ enhanced_df[i].trend = 0 =>
                /\ ~HasSignal(signals_list, enhanced_df[i].date, "buy")
                /\ ~HasSignal(signals_list, enhanced_df[i].date, "sell")

\* a history that goes 0, +1, -1 and then 0 -> +1: a buy out of neutral, a sell
\* on the reversal, nothing on the neutral bar
C10_Witness ==
    /\ signals_list # Pending
    /\ Len(enhanced_df) = MaxBars
    /\ enhanced_df[1].trend = 0 /\ enhanced_df[2].trend = 1
    /\ enhanced_df[3].trend = -1 /\ enhanced_df[MaxBars].trend = 0
    /\ HasSignal(signals_list, enhanced_df[2].date, "buy")
    /\ HasSignal(signals_list, enhanced_df[3].date, "sell")
    /\ Len(signals_list) = 2

-----------------------------------------------------------------------------
(* StockDataCache: tables technical_indicators, rsi_divergences, trend_signals *)

\* the attributes save_technical_indicators reads from each record of its list
IndicatorAttributes ==
    {"date", "rsi14", "ma10", "daily_change_pct", "trend", "upper_band", "lower_band",
     "volume", "vol_ratio"}

\* Reading an attribute the record does not have raises AttributeError while
\* data_to_insert is built, before any statement is run. Otherwise REPLACE INTO
\* under UNIQUE(symbol, date).
save_technical_indicators(table, symbol, indicators_data) ==
    IF indicators_data = <<>> THEN [raised |-> FALSE, table |-> table]
    ELSE IF \E i \in DOMAIN indicators_data :
                ~(IndicatorAttributes \subseteq DOMAIN indicators_data[i])
    THEN [raised |-> TRUE, table |-> table]
    ELSE [raised |-> FALSE,
          table |-> executemany_replace(table,
                       [i \in DOMAIN indicators_data |->
                           [symbol |-> symbol,
                            date |-> indicators_data[i].date,
                            rsi14 |-> indicators_data[i].rsi14,
                            ma10 |-> indicators_data[i].ma10,
                            daily_change_pct |-> indicators_data[i].daily_change_pct,
                            trend |-> indicators_data[i].trend,
                            upper_band |-> indicators_data[i].upper_band,
                            lower_band |-> indicators_data[i].lower_band,
                            volume |-> indicators_data[i].volume,
                            vol_ratio |-> indicators_data[i].vol_ratio]])]

\* the rows of the list with the symbol column added
SymbolRows(symbol, data) ==
    {[symbol |-> symbol] @@ data[i] : i \in DOMAIN data}

\* A store whose connection commits every statement as it runs: the DELETE and
\* the rows inserted before the failing one stay
save_trend_signals_Autocommit(table, symbol, signals_data, failAt) ==
    IF signals_data = <<>> THEN [raised |-> FALSE, table |-> table]
    ELSE LET deleted == {r \in table : r.symbol # symbol}
         IN  IF failAt \in DOMAIN signals_data
             THEN [raised |-> TRUE,
                   table |-> deleted \cup SymbolRows(symbol, SubSeq(signals_data, 1, failAt - 1))]
             ELSE [raised |-> FALSE, table |-> deleted \cup SymbolRows(symbol, signals_data)]

\* `if not data: return` comes first. Then DELETE and executemany(INSERT) run in
\* the transaction sqlite3 opens before the DELETE; commit() follows the insert, so
\* an insert that raises at row failAt leaves without a commit and the
\* transaction is rolled back. failAt = 0: no row fails.
save_rsi_divergences(table, symbol, divergences_data, failAt) ==
    IF divergences_data = <<>> THEN [raised |-> FALSE, table |-> table]
    ELSE LET deleted == {r \in table : r.symbol # symbol}
         IN  IF failAt \in DOMAIN divergences_data
             THEN [raised |-> TRUE, table |-> table]
             ELSE [raised |-> FALSE, table |-> deleted \cup SymbolRows(symbol, divergences_data)]

save_trend_signals(table, symbol, signals_data, failAt) ==
    IF signals_data = <<>> THEN [raised |-> FALSE, table |-> table]
    ELSE LET deleted == {r \in table : r.symbol # symbol}
         IN  IF failAt \in DOMAIN signals_data
             THEN [raised |-> TRUE, table |-> table]
             ELSE [raised |-> FALSE, table |-> deleted \cup SymbolRows(symbol, signals_data)]

\* mutant: a write that raises is passed over, the later writes are made and
\* the call returns
calculate_and_store_indicators_Continue(ti, rd, ts, symbol, history, divergences_list) ==
    LET indicators_data == calculate_all_indicators(history)
        signals == calculate_trend_signals(indicators_data.dataframe)
        w1 == save_technical_indicators(ti, symbol, indicators_data.indicators)
        w2 == save_rsi_divergences(rd, symbol, divergences_list, 0)
        w3 == save_trend_signals(ts, symbol, signals, 0)
    IN  IF indicators_data.raised
        THEN [indicators |-> <<>>, divergences |-> <<>>, signals |-> <<>>,
              raised |-> TRUE, stage |-> "_calculate_all_indicators",
              ti |-> ti, rd |-> rd, ts |-> ts]
        ELSE [indicators |-> indicators_data.indicators,
              divergences |-> divergences_list, signals |-> signals,
              raised |-> FALSE,
              stage |-> IF w1.raised THEN "save_technical_indicators"
                        ELSE IF w2.raised THEN "save_rsi_divergences"
                        ELSE IF w3.raised THEN "save_trend_signals" ELSE "returned",
              ti |-> w1.table, rd |-> w2.table, ts |-> w3.table]

\* The computation, then the three writes in their order; an exception of any
\* step leaves the call at once (stage is the step that raised, "returned" when
\* none did).  divergences_list stands for what _calculate_rsi_divergences
\* returns.
calculate_and_store_indicators(ti, rd, ts, symbol, history, divergences_list) ==
    LET indicators_data == calculate_all_indicators(history)
        signals == calculate_trend_signals(indicators_data.dataframe)
        w1 == save_technical_indicators(ti, symbol, indicators_data.indicators)
        w2 == save_rsi_divergences(rd, symbol, divergences_list, 0)
        w3 == save_trend_signals(ts, symbol, signals, 0)
        computed == [indicators |-> indicators_data.indicators,
                     divergences |-> divergences_list, signals |-> signals]
    IN  IF indicators_data.raised
        THEN [indicators |-> <<>>, divergences |-> <<>>, signals |-> <<>>,
              raised |-> TRUE, stage |-> "_calculate_all_indicators",
              ti |-> ti, rd |-> rd, ts |-> ts]
        ELSE IF w1.raised
        THEN computed @@ [raised |-> TRUE, stage |-> "save_technical_indicators",
                          ti |-> ti, rd |-> rd, ts |-> ts]
        ELSE IF w2.raised
        THEN computed @@ [raised |-> TRUE, stage |-> "save_rsi_divergences",
                          ti |-> w1.table, rd |-> rd, ts |-> ts]
        ELSE IF w3.raised
        THEN computed @@ [raised |-> TRUE, stage |-> "save_trend_signals",
                          ti |-> w1.table, rd |-> w2.table, ts |-> ts]
        ELSE computed @@ [raised |-> FALSE, stage |-> "returned",
                          ti |-> w1.table, rd |-> w2.table, ts |-> w3.table]

-----------------------------------------------------------------------------
(* The indicator store and the analysis run that writes it *)

MaxRunBars == 2
\* the histories of a run, in which every bar has a close and a SuperTrend
\* value: those of up to MaxRunBars bars, and two that are one bar longer than
\* the RSI period
LongHistory(super_trend) ==
    [i \in 1..(RsiPeriod + 1) |->
        [date |-> BarDate(i), close |-> 2, super_trend |-> super_trend]]
RunHistories ==
    {h \in Histories :
        /\ Len(h) <= MaxRunBars
        /\ \A i \in DOMAIN h : h[i].close # NoValue /\ h[i].super_trend \in {1, 3}}
    \cup {LongHistory(1), LongHistory(3)}

\* the dataclass RSIDivergence (its rsi and price figures left out)
RSIDivergence(d, prev_date, type, timeframe, confidence) ==
    [date |-> d, prev_date |-> prev_date, type |-> type, timeframe |-> timeframe,
     confidence |-> confidence]
BullishDivergence == RSIDivergence(BarDate(2), BarDate(1), "bullish", "short", 80)
BearishDivergence == RSIDivergence(BarDate(2), BarDate(1), "bearish", "short", 60)
DivergenceLists == {<<>>, <<BullishDivergence>>, <<BearishDivergence, BullishDivergence>>}
\* the divergences a history can give: both of their bars are bars of the history
DivergenceListsOf(history) ==
    {l \in DivergenceLists :
        \A k \in DOMAIN l : {l[k].date, l[k].prev_date} \subseteq Dates(history)}
\* trend signals as _calculate_trend_signals builds them
BuySignal(i) == TrendSignal([date |-> BarDate(i), close |-> 2, super_trend |-> 1], "buy")
SellSignal(i) == TrendSignal([date |-> BarDate(i), close |-> 2, super_trend |-> 3], "sell")
SignalLists == {<<>>, <<BuySignal(1)>>, <<SellSignal(1), BuySignal(2)>>}

InitIndicators ==
    /\ today = FirstDay
    /\ published = OldDays
    /\ trading_calendar = {}
    /\ stock_data = {}
    /\ lastCall = NoCall
    /\ latest = NoLatest
    /\ lastSave = NoSave
    /\ technical_indicators = {} /\ rsi_divergences = {} /\ trend_signals = {}
    /\ lastOp = NoOp
    /\ enhanced_df = <<>> /\ signals_list = Pending
    /\ AnalysisIdle

\* save_rsi_divergences called on the store; the insert may fail at a row
SaveRsiDivergences ==
    \E symbol \in Symbols, data \in DivergenceLists :
      \E failAt \in 0..Len(data) :
        LET out == save_rsi_divergences(rsi_divergences, symbol, data, failAt)
        IN  /\ rsi_divergences' = out.table
            /\ lastOp' = [op |-> "save_rsi_divergences", symbol |-> symbol,
                          raised |-> out.raised, failAt |-> failAt, bars |-> 0,
                          indicators |-> <<>>, divergences |-> data, signals |-> <<>>]
            /\ UNCHANGED <<technical_indicators, trend_signals>>
            /\ UNCHANGED <<cacheVars, signalVars, analysisVars>>

\* save_trend_signals called on the store; the insert may fail at a row
SaveTrendSignals ==
    \E symbol \in Symbols, data \in SignalLists :
      \E failAt \in 0..Len(data) :
        LET out == save_trend_signals(trend_signals, symbol, data, failAt)
        IN  /\ trend_signals' = out.table
            /\ lastOp' = [op |-> "save_trend_signals", symbol |-> symbol,
                          raised |-> out.raised, failAt |-> failAt, bars |-> 0,
                          indicators |-> <<>>, divergences |-> <<>>, signals |-> data]
            /\ UNCHANGED <<technical_indicators, rsi_divergences>>
            /\ UNCHANGED <<cacheVars, signalVars, analysisVars>>

CalculateAndStoreIndicators ==
    \E symbol \in Symbols, history \in RunHistories :
      \E divergences_list \in DivergenceListsOf(history) :
        LET out == calculate_and_store_indicators(technical_indicators, rsi_divergences,
                       trend_signals, symbol, history, divergences_list)
        IN  /\ technical_indicators' = out.ti
            /\ rsi_divergences' = out.rd
            /\ trend_signals' = out.ts
            /\ lastOp' = [op |-> "calculate_and_store_indicators", symbol |-> symbol,
                          raised |-> out.raised, failAt |-> 0, bars |-> Len(history),
                          indicators |-> out.indicators, divergences |-> out.divergences,
                          signals |-> out.signals]
            /\ UNCHANGED <<cacheVars, signalVars, analysisVars>>

NextIndicators == SaveRsiDivergences \/ SaveTrendSignals \/ CalculateAndStoreIndicators

SpecIndicators == InitIndicators /\ [][NextIndicators]_vars

RowsOf(table, symbol) == {r \in table : r.symbol = symbol}
IsRun == lastOp.op = "calculate_and_store_indicators"
\* the step is a call of one of the two replacing writes
IsSaveStep == lastOp'.op \in {"save_rsi_divergences", "save_trend_signals"}

C7_TransactionalReplace ==
    [][IsSaveStep =>
         /\ lastOp'.raised =>
               (rsi_divergences' = rsi_divergences /\ trend_signals' = trend_signals)
         /\ (~lastOp'.raised /\ lastOp'.op = "save_trend_signals" /\ lastOp'.signals # <<>>) =>
               trend_signals' = {r \in trend_signals : r.symbol # lastOp'.symbol}
                                   \cup SymbolRows(lastOp'.symbol, lastOp'.signals)
         /\ (~lastOp'.raised /\ lastOp'.op = "save_rsi_divergences"
                 /\ lastOp'.divergences # <<>>) =>
               rsi_divergences' = {r \in rsi_divergences : r.symbol # lastOp'.symbol}
                                     \cup SymbolRows(lastOp'.symbol, lastOp'.divergences)]_vars

\* a replacement of trend signals failed at its second row while the symbol had
\* other rows stored: they are still there, none of the new list is
C7_Witness ==
    /\ lastOp.op = "save_trend_signals"
    /\ lastOp.raised
    /\ lastOp.failAt = 2
    /\ RowsOf(trend_signals, lastOp.symbol) # {}
    /\ RowsOf(trend_signals, lastOp.symbol) \cap SymbolRows(lastOp.symbol, lastOp.signals) = {}

\* C9: after calculate_and_store_indicators is invoked on a non-empty history the
\* store holds exactly one technical-indicator row per (symbol, bar date) of the
\* history, with the values computed in this invocation.
C9_Original ==
    (IsRun /\ lastOp.bars > 0) =>
        \A i \in 1..lastOp.bars :
            LET rows == {r \in technical_indicators :
                            r.symbol = lastOp.symbol /\ r.date = BarDate(i)}
            IN  /\ Cardinality(rows) = 1
                /\ i \in DOMAIN lastOp.indicators
                /\ \A r \in rows : r.trend = lastOp.indicators[i].trend

\* ---------------------------------------------------------------------------
\* Specification of calculate_rsi: close series over RsiCloses of up to
\* MaxRsiBars bars, and one of 13 bars; periods from RsiPeriods
\* ---------------------------------------------------------------------------
MaxRsiBars == 4
RsiCloses == {1, 2, 3}
RsiPeriods == {1, 2, 14}

RECURSIVE SeriesOfLen(_, _)
SeriesOfLen(values, n) ==
    IF n = 0 THEN {<<>>}
    ELSE {Append(s, v) : s \in SeriesOfLen(values, n - 1), v \in values}

ThirteenBars == [i \in 1..13 |-> 1 + (i % 3)]
RsiSeries ==
    UNION {SeriesOfLen(RsiCloses, n) : n \in 0..MaxRsiBars} \cup {ThirteenBars}

\* an empty store and no provider call, run or signal calculation in hand
StoreIdle ==
    /\ today = FirstDay /\ published = {}
    /\ trading_calendar = {} /\ stock_data = {}
    /\ lastCall = NoCall /\ latest = NoLatest /\ lastSave = NoSave
    /\ technical_indicators = {} /\ rsi_divergences = {} /\ trend_signals = {}
    /\ lastOp = NoOp
    /\ enhanced_df = <<>> /\ signals_list = Pending

InitRsi ==
    /\ StoreIdle
    /\ session = NoSession
    /\ FunctionsIdle
    /\ divergence_call = NoDivergenceCall
    /\ ResolveIdle
    /\ rsi_call \in {[data |-> d, period |-> p, state |-> "called", rsi |-> <<>>] :
                        d \in RsiSeries, p \in RsiPeriods}

CalculateRsi ==
    /\ rsi_call.state = "called"
    /\ LET r == calculate_rsi(rsi_call.data, rsi_call.period)
       IN  rsi_call' = [rsi_call EXCEPT
                            !.state = IF r.raised THEN "raised" ELSE "returned",
                            !.rsi = r.rsi]
    /\ UNCHANGED <<cacheVars, indicatorVars, signalVars, divergence_call, provider, lookup, session, functionVars>>

NextRsi == CalculateRsi
SpecRsi == InitRsi /\ [][NextRsi]_vars

RsiDone == rsi_call.state \in {"raised", "returned"}
avg_loss_is_zero(i) == WilderNum(losses(rsi_call.data), rsi_call.period, i) = 0

\* C11 (as stated): for a history of fewer than period + 1 bars calculate_rsi
\* raises no error and returns a series of the same length whose every value
\* is undefined.
C11_Original ==
    (RsiDone /\ Len(rsi_call.data) < rsi_call.period + 1) =>
        /\ rsi_call.state = "returned"
        /\ Len(rsi_call.rsi) = Len(rsi_call.data)
        /\ \A i \in 1..Len(rsi_call.rsi) : rsi_call.rsi[i] = NaN

\* C12 (as stated): every bar at index >= period has a defined value between
\* 0 and 100, which is 100 whenever the smoothed average loss is zero (the
\* flat series included); every bar before index period is undefined.
C12_Original ==
    rsi_call.state = "returned" =>
        \A i \in 1..Len(rsi_call.rsi) :
            IF i - 1 >= rsi_call.period
            THEN /\ rsi_call.rsi[i] # NaN
                 /\ 0 <= rsi_call.rsi[i] /\ rsi_call.rsi[i] <= 1000
                 /\ avg_loss_is_zero(i) => rsi_call.rsi[i] = 1000
            ELSE rsi_call.rsi[i] = NaN

\* ---------------------------------------------------------------------------
\* rsi_component.detect_rsi_divergence
\*
\* A price series is the sequence of closes of a frame sorted by date, one bar
\* a day; positions are the 0-based positions of the source, so the value at
\* position k is the (k + 1)-th element.  RSI values and confidences are in
\* tenths.
\* ---------------------------------------------------------------------------
iloc(series, k) == series[k + 1]
DateAt(k) == BarDate(k + 1)
IdxOf(d) == d - BarDate(1)

windows ==
    [short |-> [window |-> 20, min_distance |-> 5],
     medium |-> [window |-> 60, min_distance |-> 30],
     long |-> [window |-> 90, min_distance |-> 50]]
Timeframes == <<"short", "medium", "long">>

\* Series.idxmax / idxmin over series.iloc[start:end]: the first position of
\* the extreme value (found by halving the slice)
RECURSIVE idxmax(_, _, _)
idxmax(series, start, end) ==
    IF start >= end - 1 THEN start
    ELSE LET mid == (start + end) \div 2
             l == idxmax(series, start, mid)
             r == idxmax(series, mid, end)
         IN  IF iloc(series, l) >= iloc(series, r) THEN l ELSE r
RECURSIVE idxmin(_, _, _)
idxmin(series, start, end) ==
    IF start >= end - 1 THEN start
    ELSE LET mid == (start + end) \div 2
             l == idxmin(series, start, mid)
             r == idxmin(series, mid, end)
         IN  IF iloc(series, l) <= iloc(series, r) THEN l ELSE r

\* a loop body without the central-region test: any window extreme that is far
\* enough from the last one and not below (above) its neighbours is appended
scan_window_WholeWindow(series, window, min_distance, start, found) ==
    LET n == Len(series)
        global_max_idx == idxmax(series, start, start + window)
        global_min_idx == idxmin(series, start, start + window)
        is_peak ==
            /\ \/ found.peaks = <<>>
               \/ global_max_idx - found.peaks[Len(found.peaks)] >= min_distance
            /\ global_max_idx > 0 /\ global_max_idx < n - 1
            /\ iloc(series, global_max_idx) >= iloc(series, global_max_idx - 1)
            /\ iloc(series, global_max_idx) >= iloc(series, global_max_idx + 1)
        is_trough ==
            /\ \/ found.troughs = <<>>
               \/ global_min_idx - found.troughs[Len(found.troughs)] >= min_distance
            /\ global_min_idx > 0 /\ global_min_idx < n - 1
            /\ iloc(series, global_min_idx) <= iloc(series, global_min_idx - 1)
            /\ iloc(series, global_min_idx) <= iloc(series, global_min_idx + 1)
    IN  [peaks |-> IF is_peak THEN Append(found.peaks, global_max_idx) ELSE found.peaks,
         troughs |-> IF is_trough THEN Append(found.troughs, global_min_idx)
                     ELSE found.troughs]

\* one pass of the loop body, for the window that begins at `start`, with the
\* peaks and troughs appended so far
scan_window(series, window, min_distance, start, found) ==
    LET n == Len(series)
        global_max_idx == idxmax(series, start, start + window)
        global_min_idx == idxmin(series, start, start + window)
        center_start == start + window \div 4
        center_end == start + (3 * window) \div 4
        is_peak ==
            /\ center_start <= global_max_idx /\ global_max_idx <= center_end
            /\ \/ found.peaks = <<>>
               \/ global_max_idx - found.peaks[Len(found.peaks)] >= min_distance
            /\ global_max_idx > 0 /\ global_max_idx < n - 1
            /\ iloc(series, global_max_idx) >= iloc(series, global_max_idx - 1)
            /\ iloc(series, global_max_idx) >= iloc(series, global_max_idx + 1)
        is_trough ==
            /\ center_start <= global_min_idx /\ global_min_idx <= center_end
            /\ \/ found.troughs = <<>>
               \/ global_min_idx - found.troughs[Len(found.troughs)] >= min_distance
            /\ global_min_idx > 0 /\ global_min_idx < n - 1
            /\ iloc(series, global_min_idx) <= iloc(series, global_min_idx - 1)
            /\ iloc(series, global_min_idx) <= iloc(series, global_min_idx + 1)
    IN  [peaks |-> IF is_peak THEN Append(found.peaks, global_max_idx) ELSE found.peaks,
         troughs |-> IF is_trough THEN Append(found.troughs, global_min_idx)
                     ELSE found.troughs]

\* the passes number lo .. hi - 1 of `for start in range(0, n - window + 1, step)`
\* in their order (the range is halved, the first half runs first)
RECURSIVE scan_passes(_, _, _, _, _, _)
scan_passes(series, window, min_distance, lo, hi, found) ==
    LET step == IF min_distance \div 3 > 1 THEN min_distance \div 3 ELSE 1
        mid == (lo + hi) \div 2
    IN  IF lo >= hi THEN found
        ELSE IF hi = lo + 1
        THEN scan_window(series, window, min_distance, lo * step, found)
        ELSE LET first == scan_passes(series, window, min_distance, lo, mid, found)
             IN  IF DOMAIN first = {} THEN first  \* never: first is a record
                 ELSE scan_passes(series, window, min_distance, mid, hi, first)

\* the whole loop: len(range(0, n - window + 1, step)) passes
scan_windows(series, window, min_distance) ==
    LET n == Len(series)
        step == IF min_distance \div 3 > 1 THEN min_distance \div 3 ELSE 1
        passes == IF n - window + 1 <= 0 THEN 0 ELSE (n - window + step) \div step
    IN  scan_passes(series, window, min_distance, 0, passes,
                    [peaks |-> <<>>, troughs |-> <<>>])

\* the lists as the loop appended them, neither deduplicated nor sorted
find_peaks_troughs_Appended(series, window, min_distance) ==
    scan_windows(series, window, min_distance)

\* sorted(list(set(...))) of what the loop appended
find_peaks_troughs(series, window, min_distance) ==
    LET found == scan_windows(series, window, min_distance)
    IN  [peaks |-> SortedSeq(Range(found.peaks)),
         troughs |-> SortedSeq(Range(found.troughs))]

\* Python's max(a, b) and min(a, b): b replaces a only when the comparison
\* b > a (b < a) is True, which it never is with a NaN on either side
pymax(a, b) == IF a # NaN /\ b # NaN /\ b > a THEN b ELSE a
pymin(a, b) == IF a # NaN /\ b # NaN /\ b < a THEN b ELSE a

\* Series.max() / Series.min() of rsi.iloc[prev_idx:current_idx+1]: NaN is
\* skipped; NaN when nothing is left
interval_values(rsi_data, prev_idx, current_idx) ==
    {iloc(rsi_data, k) : k \in prev_idx..current_idx} \ {NaN}
interval_max(rsi_data, prev_idx, current_idx) ==
    LET v == interval_values(rsi_data, prev_idx, current_idx)
    IN  IF v = {} THEN NaN ELSE CHOOSE x \in v : \A y \in v : y <= x
interval_min(rsi_data, prev_idx, current_idx) ==
    LET v == interval_values(rsi_data, prev_idx, current_idx)
    IN  IF v = {} THEN NaN ELSE CHOOSE x \in v : \A y \in v : x <= y

\* every comparison with a NaN operand is False
is_valid_divergence(price_data, rsi_data, current_idx, prev_idx, divergence_type, timeframe) ==
    LET current_price == iloc(price_data, current_idx)
        prev_price == iloc(price_data, prev_idx)
        current_rsi == iloc(rsi_data, current_idx)
        prev_rsi == iloc(rsi_data, prev_idx)
        rsi_high == interval_max(rsi_data, prev_idx, current_idx)
        rsi_low == interval_min(rsi_data, prev_idx, current_idx)
        price_peak == iloc(price_data, idxmax(price_data, prev_idx, current_idx + 1))
        price_bottom == iloc(price_data, idxmin(price_data, prev_idx, current_idx + 1))
    IN  IF divergence_type = "bearish"
        THEN /\ 1000 * current_price > 1001 * prev_price
             /\ current_rsi # NaN /\ prev_rsi # NaN
             /\ 1000 * current_rsi < 995 * prev_rsi
             /\ pymax(current_rsi, prev_rsi) # NaN
             /\ 550 <= pymax(current_rsi, prev_rsi)
             /\ pymax(current_rsi, prev_rsi) <= 900
             /\ rsi_high # NaN
             /\ rsi_high >= (IF timeframe = "short" THEN 600 ELSE 650)
             /\ timeframe = "medium" => 100 * current_price >= 98 * price_peak
        ELSE /\ 1000 * current_price < 999 * prev_price
             /\ current_rsi # NaN /\ prev_rsi # NaN
             /\ 100 * current_rsi > 101 * prev_rsi
             /\ pymin(current_rsi, prev_rsi) # NaN
             /\ 150 <= pymin(current_rsi, prev_rsi)
             /\ pymin(current_rsi, prev_rsi) <= 450
             /\ rsi_low # NaN
             /\ rsi_low <= (IF timeframe \in {"medium", "long"} THEN 300 ELSE 350)
             /\ timeframe = "medium" => 100 * current_price <= 102 * price_bottom

\* np.exp(-time_diff / max_time_diff), in ten-thousandths: the reciprocal of
\* the power series of exp(time_diff / max_time_diff)
ExpScale == 10000
RoundDiv(a, b) == (2 * a + b) \div (2 * b)
RECURSIVE ExpSeries(_, _, _, _)
ExpSeries(time_diff, max_time_diff, k, t) ==
    IF k = 0 THEN t
    ELSE ExpSeries(time_diff, max_time_diff, k - 1,
                   ExpScale + RoundDiv(time_diff * t, max_time_diff * k))
exp_neg(time_diff, max_time_diff) ==
    RoundDiv(ExpScale * ExpScale, ExpSeries(time_diff, max_time_diff, 24, ExpScale))

time_weights == [short |-> 25, medium |-> 30, long |-> 35]

\* (time_factor * weight + rsi_factor * 0.35 + trend_factor * 0.35) * 100,
\* rounded to one decimal.  The two RSI values are defined: the function is
\* called for valid divergences only.  The argument strength is not used.
calculate_rsi_divergence_confidence(time_diff, max_time_diff, rsi_current, rsi_previous, divergence_type, timeframe) ==
    LET time_factor == exp_neg(time_diff, max_time_diff)
        clamp(x) == IF x < 0 THEN 0 ELSE IF x > 300 THEN 300 ELSE x
        rsi_factor == IF divergence_type = "bearish"
                      THEN clamp(pymax(rsi_current, rsi_previous) - 550)
                      ELSE clamp(450 - pymin(rsi_current, rsi_previous))
        diff == IF rsi_current >= rsi_previous THEN rsi_current - rsi_previous
                ELSE rsi_previous - rsi_current
        trend_factor == clamp(diff)
    IN  RoundHalfEven(60 * time_factor * time_weights[timeframe]
                        + 7 * (rsi_factor + trend_factor) * ExpScale,
                      6 * ExpScale)

\* mutant: every candidate is accepted
accepted_Always(confidence) == TRUE
\* `if confidence >= 35`
accepted(confidence) == confidence >= 350

\* mutant: bullish candidates are taken from the peaks as well
extrema_PeaksOnly(found, divergence_type) == found.peaks
\* the peaks for the bearish loop, the troughs for the bullish loop
extrema(found, divergence_type) ==
    IF divergence_type = "bearish" THEN found.peaks ELSE found.troughs

\* the candidates of one loop: range(1, len(list)), each with its predecessor
candidates(price_data, timeframe, divergence_type) ==
    LET consecutive(list) ==
            [i \in 1..(Len(list) - 1) |-> [current_idx |-> list[i + 1], prev_idx |-> list[i]]]
    IN  consecutive(extrema(find_peaks_troughs(price_data, windows[timeframe].window,
                                               windows[timeframe].min_distance),
                            divergence_type))

\* the divergences one loop appends, in its order
loop_divergences(price_data, rsi, timeframe, divergence_type) ==
    LET confidence(pair) ==
            calculate_rsi_divergence_confidence(pair.current_idx - pair.prev_idx,
                windows[timeframe].window * 2, iloc(rsi, pair.current_idx),
                iloc(rsi, pair.prev_idx), divergence_type, timeframe)
        emitted(c) ==
            SelectSeq(c, LAMBDA pair :
                           /\ is_valid_divergence(price_data, rsi, pair.current_idx,
                                  pair.prev_idx, divergence_type, timeframe)
                           /\ accepted(confidence(pair)))
        appended(e) ==
            [j \in DOMAIN e |->
                RSIDivergence(DateAt(e[j].current_idx), DateAt(e[j].prev_idx),
                              divergence_type, timeframe, confidence(e[j]))]
    IN  appended(emitted(candidates(price_data, timeframe, divergence_type)))

\* the list `divergences` before the final sort
appended_divergences(price_data, rsi) ==
    loop_divergences(price_data, rsi, "short", "bearish")
      \o loop_divergences(price_data, rsi, "short", "bullish")
      \o loop_divergences(price_data, rsi, "medium", "bearish")
      \o loop_divergences(price_data, rsi, "medium", "bullish")
      \o loop_divergences(price_data, rsi, "long", "bearish")
      \o loop_divergences(price_data, rsi, "long", "bullish")

\* sort_values('confidence', ascending=False): the sort is not stable, rows of
\* equal confidence come in any order
detect_rsi_divergence(price_data, rsi) ==
    LET by_confidence(d) ==
            {s \in [DOMAIN d -> Range(d)] :
                /\ Range(s) = Range(d)
                /\ \A i, j \in DOMAIN s : i < j => s[i].confidence >= s[j].confidence}
    IN  by_confidence(appended_divergences(price_data, rsi))

\* ---------------------------------------------------------------------------
\* Specification of detect_rsi_divergence.  The price series have DivBars bars,
\* level but for two bars that stand out, up or down; the RSI series is the
\* one of a calculate_rsi(df, 14) result: undefined below position 14, and a
\* level from RsiLevels at the two bars.
\* ---------------------------------------------------------------------------
DivBars == 140
ExtremaPairs == {<<7, 22>>, <<16, 25>>, <<45, 75>>, <<30, 100>>, <<40, 90>>}
HeightPairs == {<<1, 2>>, <<2, 1>>, <<-1, -2>>, <<-2, -1>>, <<1, -1>>}
RsiLevels == {NaN, 300, 400, 600, 650, 900}

PriceTemplate(at, height) ==
    [i \in 1..DivBars |->
        IF i - 1 = at[1] THEN 100 + height[1]
        ELSE IF i - 1 = at[2] THEN 100 + height[2] ELSE 100]

\* mutant: an RSI series that is defined from its first bar on
RsiInput_NoWarmUp(idx, level) == level
\* the value at a position: both averages are 0 below position `period`
RsiInput(idx, level) == IF idx < RsiPeriod THEN RsiValue(0, 0) ELSE level

RsiTemplate(at, level) ==
    [i \in 1..DivBars |->
        RsiInput(i - 1, IF i - 1 = at[1] THEN level[1]
                        ELSE IF i - 1 = at[2] THEN level[2] ELSE 500)]

InitDivergence ==
    /\ StoreIdle
    /\ session = NoSession
    /\ FunctionsIdle
    /\ rsi_call = NoRsiCall
    /\ ResolveIdle
    /\ divergence_call \in
          {[price_data |-> PriceTemplate(at, height), rsi |-> RsiTemplate(at, level),
            state |-> "called", divergences |-> <<>>] :
               at \in ExtremaPairs, height \in HeightPairs,
               level \in RsiLevels \X RsiLevels}

DetectRsiDivergence ==
    /\ divergence_call.state = "called"
    /\ \E result \in detect_rsi_divergence(divergence_call.price_data, divergence_call.rsi) :
          divergence_call' = [divergence_call EXCEPT !.state = "returned",
                                                     !.divergences = result]
    /\ UNCHANGED <<cacheVars, indicatorVars, signalVars, rsi_call, provider, lookup, session, functionVars>>

NextDivergence == DetectRsiDivergence
SpecDivergence == InitDivergence /\ [][NextDivergence]_vars

Emitted == Range(divergence_call.divergences)
\* the extremum list of an event's kind in the event's timeframe
ExtremaOf(e) ==
    LET found == find_peaks_troughs(divergence_call.price_data,
                     windows[e.timeframe].window, windows[e.timeframe].min_distance)
    IN  IF e.type = "bearish" THEN found.peaks ELSE found.troughs

\* C13: every emitted divergence pairs two consecutive extrema of its kind
\* (peaks for bearish, troughs for bullish) from its own timeframe's extremum
\* list, and its reference date is strictly earlier than its event date.
C13_SameKindPairs ==
    \A e \in Emitted :
        /\ e.prev_date < e.date
        /\ \E i \in 1..(Len(ExtremaOf(e)) - 1) :
              /\ ExtremaOf(e)[i] = IdxOf(e.prev_date)
              /\ ExtremaOf(e)[i + 1] = IdxOf(e.date)

\* a call that emitted a bullish divergence in the medium timeframe and one in
\* the long timeframe
C13_Witness ==
    /\ divergence_call.state = "returned"
    /\ \E e \in Emitted : e.type = "bullish" /\ e.timeframe = "medium"
    /\ \E e \in Emitted : e.type = "bullish" /\ e.timeframe = "long"

\* the candidates of a loop that passed is_valid_divergence
ValidCandidates(timeframe, divergence_type) ==
    LET c == candidates(divergence_call.price_data, timeframe, divergence_type)
    IN  {c[k] : k \in {j \in DOMAIN c :
                          is_valid_divergence(divergence_call.price_data,
                              divergence_call.rsi, c[j].current_idx, c[j].prev_idx,
                              divergence_type, timeframe)}}
IsEmitted(c, timeframe, divergence_type) ==
    \E e \in Emitted :
        /\ e.timeframe = timeframe /\ e.type = divergence_type
        /\ e.date = DateAt(c.current_idx) /\ e.prev_date = DateAt(c.prev_idx)

\* C14: every emitted divergence has a confidence of at least the acceptance
\* threshold, 35 (so at least 30), and of at most 100, in every timeframe and
\* at every distance between its two extrema; a candidate that scores less is
\* not emitted.
C14_ConfidenceRange ==
    \A e \in Emitted :
        /\ e.confidence >= 350
        /\ e.confidence >= 300
        /\ e.confidence <= 1000

\* a call with a valid candidate that was emitted in one timeframe and that
\* scored too little in another
C14_Witness ==
    /\ divergence_call.state = "returned"
    /\ \E e \in Emitted : e.timeframe = "long"
    /\ \E c \in ValidCandidates("short", "bullish") : ~IsEmitted(c, "short", "bullish")

\* C15: no emitted divergence has its current or its reference extremum in
\* the warm-up region of the oscillator, the positions below the RSI period.
C15_WarmUpExcluded ==
    \A e \in Emitted :
        /\ IdxOf(e.date) >= RsiPeriod
        /\ IdxOf(e.prev_date) >= RsiPeriod

\* the short timeframe paired a peak of the warm-up region with a later, higher
\* peak whose RSI is in the bearish range, and the call emitted nothing
C15_Witness ==
    /\ divergence_call.state = "returned"
    /\ \E k \in DOMAIN candidates(divergence_call.price_data, "short", "bearish") :
          LET c == candidates(divergence_call.price_data, "short", "bearish")[k]
          IN  /\ c.prev_idx < RsiPeriod
              /\ iloc(divergence_call.price_data, c.current_idx)
                    > iloc(divergence_call.price_data, c.prev_idx)
              /\ iloc(divergence_call.rsi, c.current_idx) = 600
    /\ Emitted = {}

\* ---------------------------------------------------------------------------
\* StockDataProvider: market detection and name resolution
\*
\* A string is the sequence of its characters.  A directory is a sequence of
\* rows [code, name].  The store keeps one table stock_info for both markets.
\* ---------------------------------------------------------------------------
DigitValue == ("0" :> 0) @@ ("5" :> 5) @@ ("6" :> 6) @@ ("7" :> 7)
Digits == DOMAIN DigitValue

RECURSIVE lstrip(_)
lstrip(s) == IF s # <<>> /\ Head(s) = " " THEN lstrip(Tail(s)) ELSE s
RECURSIVE rstrip(_)
rstrip(s) ==
    IF s # <<>> /\ s[Len(s)] = " " THEN rstrip(SubSeq(s, 1, Len(s) - 1)) ELSE s
strip(s) == rstrip(lstrip(s))
isdigit(s) == s # <<>> /\ \A i \in DOMAIN s : s[i] \in Digits

\* mutant: any five digits are a Hong Kong code
detect_market_type_AnyFive(symbol) ==
    LET s == strip(symbol)
    IN  IF Len(s) = 5 /\ isdigit(s) THEN [raised |-> FALSE, market_type |-> "hk"]
        ELSE IF Len(s) = 6 /\ isdigit(s) THEN [raised |-> FALSE, market_type |-> "a"]
        ELSE [raised |-> TRUE, market_type |-> "none"]

\* raised: the ValueError of an unrecognised format
detect_market_type(symbol) ==
    LET s == strip(symbol)
    IN  IF Len(s) = 5 /\ isdigit(s) /\ s[1] = "0"
        THEN [raised |-> FALSE, market_type |-> "hk"]
        ELSE IF Len(s) = 6 /\ isdigit(s) THEN [raised |-> FALSE, market_type |-> "a"]
        ELSE [raised |-> TRUE, market_type |-> "none"]

\* ak.stock_info_a_code_name() and ak.stock_hk_spot_em()
ADirectory ==
    << [code |-> <<"6","0","0","0","0","7">>, name |-> <<"A","B","C","D">>],
       [code |-> <<"6","0","0","0","0","6">>, name |-> <<"X","D","A","B","C">>],
       [code |-> <<"6","0","0","0","0","5">>, name |-> <<"X","D","A","B">>] >>
HKDirectory ==
    << [code |-> <<"0","0","7","0","0">>, name |-> <<"E","E","F">>],
       [code |-> <<"0","0","0","0","5">>, name |-> <<"X","D","E","E","G">>] >>

\* text order of two codes
RECURSIVE CodeLess(_, _)
CodeLess(x, y) ==
    IF y = <<>> THEN FALSE
    ELSE IF x = <<>> THEN TRUE
    ELSE IF Head(x) # Head(y) THEN DigitValue[Head(x)] < DigitValue[Head(y)]
    ELSE CodeLess(Tail(x), Tail(y))
RECURSIVE order_by_code(_)
order_by_code(rows) ==
    IF rows = <<>> THEN <<>>
    ELSE LET m == CHOOSE i \in DOMAIN rows :
                    \A j \in DOMAIN rows : j = i \/ CodeLess(rows[i].code, rows[j].code)
                                            \/ (rows[i].code = rows[j].code /\ i < j)
             rest == [k \in 1..(Len(rows) - 1) |-> IF k < m THEN rows[k] ELSE rows[k + 1]]
         IN  <<rows[m]>> \o order_by_code(rest)

\* StockDataCache: the stock_info methods
is_stock_info_cache_valid(p) == p.stock_info # <<>> /\ p.fresh
get_cached_stock_info(p) == order_by_code(p.stock_info)
save_stock_info_to_cache(p, stock_info_df) ==
    IF stock_info_df = <<>> THEN p
    ELSE [p EXCEPT !.stock_info = stock_info_df, !.fresh = TRUE]

\* get_stock_info: the list held in memory, else the table if it is valid,
\* else the network list, which is saved; a network failure raises
get_stock_info(p, market_type, netFail) ==
    LET held == IF market_type = "hk" THEN p.hk ELSE p.a
        network == IF market_type = "hk" THEN HKDirectory ELSE ADirectory
        keep(q, rows) == IF market_type = "hk"
                         THEN [q EXCEPT !.hk = [loaded |-> TRUE, rows |-> rows]]
                         ELSE [q EXCEPT !.a = [loaded |-> TRUE, rows |-> rows]]
    IN  IF held.loaded
        THEN [raised |-> FALSE, stock_info |-> held.rows, provider |-> p, from |-> "memory"]
        ELSE IF is_stock_info_cache_valid(p)
        THEN [raised |-> FALSE, stock_info |-> get_cached_stock_info(p),
              provider |-> keep(p, get_cached_stock_info(p)), from |-> "table"]
        ELSE IF netFail
        THEN [raised |-> TRUE, stock_info |-> <<>>, provider |-> p, from |-> "network"]
        ELSE [raised |-> FALSE, stock_info |-> network,
              provider |-> save_stock_info_to_cache(keep(p, network), network),
              from |-> "network"]

\* Series.str.contains(stock_name, regex=False)
contains(name, stock_name) ==
    \E i \in 0..(Len(name) - Len(stock_name)) :
        SubSeq(name, i + 1, i + Len(stock_name)) = stock_name
\* stock_name[:3]
first_three(stock_name) ==
    SubSeq(stock_name, 1, IF Len(stock_name) < 3 THEN Len(stock_name) ELSE 3)
\* result.iloc[0]['code'] of the selected rows, <<>> when there is none
first_code(result) == IF result = <<>> THEN <<>> ELSE result[1].code

\* mutant: the XD rule in every market
search_in_market_AnyMarket(stock_info, stock_name, market_type) ==
    LET xd_name == <<"X", "D">> \o first_three(stock_name)
        exact == first_code(SelectSeq(stock_info, LAMBDA r : r.name = stock_name))
        xd == first_code(SelectSeq(stock_info, LAMBDA r : r.name = xd_name))
        partial == first_code(SelectSeq(stock_info, LAMBDA r : contains(r.name, stock_name)))
    IN  IF stock_info = <<>> THEN <<>>
        ELSE IF exact # <<>> THEN exact
        ELSE IF Len(stock_name) >= 3 /\ xd # <<>> THEN xd
        ELSE partial

\* _search_in_market; <<>> stands for None
search_in_market(stock_info, stock_name, market_type) ==
    LET xd_name == <<"X", "D">> \o first_three(stock_name)
        exact == first_code(SelectSeq(stock_info, LAMBDA r : r.name = stock_name))
        xd == first_code(SelectSeq(stock_info, LAMBDA r : r.name = xd_name))
        partial == first_code(SelectSeq(stock_info, LAMBDA r : contains(r.name, stock_name)))
    IN  IF stock_info = <<>> THEN <<>>
        ELSE IF exact # <<>> THEN exact
        ELSE IF market_type = "a" /\ Len(stock_name) >= 3 /\ xd # <<>> THEN xd
        ELSE partial

\* one market of get_stock_symbol: get_stock_info, then _search_in_market
search_market(p, stock_name, mt, netFail) ==
    LET info == get_stock_info(p, mt, netFail)
    IN  [raised |-> info.raised,
         result |-> IF info.raised THEN <<>>
                    ELSE search_in_market(info.stock_info, stock_name, mt),
         provider |-> info.provider,
         step |-> [market |-> mt, from |-> info.from, raised |-> info.raised,
                   stock_info |-> info.stock_info]]

\* mutant: both markets are searched before a match is picked
get_stock_symbol_SearchAll(p, stock_name, market_type, netFail) ==
    LET first == search_market(p, stock_name, "a", netFail)
        second == search_market(first.provider, stock_name, "hk", netFail)
        found == IF first.result # <<>> THEN first.result ELSE second.result
    IN  [raised |-> IF found # <<>> THEN "none" ELSE "ValueError", result |-> found,
         market |-> IF first.result # <<>> THEN "a"
                    ELSE IF second.result # <<>> THEN "hk" ELSE "none",
         provider |-> second.provider, searched |-> <<first.step, second.step>>]

\* get_stock_symbol.  With a market given its exception leaves the call; in the
\* loop over 'a' and 'hk' it is printed and the loop goes on.  raised is
\* "ValueError" (not found), "Exception" or "none".
get_stock_symbol(p, stock_name, market_type, netFail) ==
    LET one == search_market(p, stock_name, market_type, netFail)
        first == search_market(p, stock_name, "a", netFail)
        second == search_market(first.provider, stock_name, "hk", netFail)
    IN  IF market_type # "none"
        THEN [raised |-> IF one.raised THEN "Exception"
                         ELSE IF one.result # <<>> THEN "none" ELSE "ValueError",
              result |-> one.result,
              market |-> IF one.result # <<>> THEN market_type ELSE "none",
              provider |-> one.provider, searched |-> <<one.step>>]
        ELSE IF first.result # <<>>
        THEN [raised |-> "none", result |-> first.result, market |-> "a",
              provider |-> first.provider, searched |-> <<first.step>>]
        ELSE IF second.result # <<>>
        THEN [raised |-> "none", result |-> second.result, market |-> "hk",
              provider |-> second.provider, searched |-> <<first.step, second.step>>]
        ELSE [raised |-> "ValueError", result |-> <<>>, market |-> "none",
              provider |-> second.provider, searched |-> <<first.step, second.step>>]

\* ---------------------------------------------------------------------------
\* Specification of the name resolution
\* ---------------------------------------------------------------------------
StockNames ==
    { <<"A","B","C","D">>, <<"A","B","C","E">>, <<"C","D">>, <<"A","B">>,
      <<"E","E","F">>, <<"E","E","G","H">>, <<"E","E">>, <<"Z","Z">> }

InitResolve ==
    /\ StoreIdle
    /\ session = NoSession
    /\ FunctionsIdle
    /\ rsi_call = NoRsiCall /\ divergence_call = NoDivergenceCall
    /\ ResolveIdle

\* get_stock_info called on its own, as initialize_system does
GetStockInfo ==
    \E market_type \in {"a", "hk"}, netFail \in BOOLEAN :
        LET out == get_stock_info(provider, market_type, netFail)
        IN  /\ netFail => out.from = "network"
            /\ provider' = out.provider
            /\ lookup' = [NoLookup EXCEPT !.op = "get_stock_info",
                              !.market_type = market_type,
                              !.raised = IF out.raised THEN "Exception" ELSE "none"]
            /\ UNCHANGED <<cacheVars, indicatorVars, signalVars, rsi_call, divergence_call, session, functionVars>>

GetStockSymbol ==
    \E stock_name \in StockNames, market_type \in {"none", "a", "hk"}, netFail \in BOOLEAN :
        LET out == get_stock_symbol(provider, stock_name, market_type, netFail)
        IN  /\ netFail => \E i \in DOMAIN out.searched : out.searched[i].raised
            /\ provider' = out.provider
            /\ lookup' = [op |-> "get_stock_symbol", stock_name |-> stock_name,
                          market_type |-> market_type, raised |-> out.raised,
                          result |-> out.result, market |-> out.market,
                          searched |-> out.searched]
            /\ UNCHANGED <<cacheVars, indicatorVars, signalVars, rsi_call, divergence_call, session, functionVars>>

\* the program is started anew: a new provider over the same table
Restart ==
    /\ provider' = [provider EXCEPT !.a = NotLoaded, !.hk = NotLoaded]
    /\ lookup' = NoLookup
    /\ UNCHANGED <<cacheVars, indicatorVars, signalVars, rsi_call, divergence_call, session, functionVars>>

\* a day passes: the table's rows are older than one day
StockInfoExpires ==
    /\ provider.fresh
    /\ provider' = [provider EXCEPT !.fresh = FALSE]
    /\ lookup' = NoLookup
    /\ UNCHANGED <<cacheVars, indicatorVars, signalVars, rsi_call, divergence_call, session, functionVars>>

NextResolve == GetStockInfo \/ GetStockSymbol \/ Restart \/ StockInfoExpires
SpecResolve == InitResolve /\ [][NextResolve]_vars

IsSymbolLookup == lookup.op = "get_stock_symbol"
\* the rows of a directory whose name is the given one, by position
RowsNamed(stock_info, name) == {i \in DOMAIN stock_info : stock_info[i].name = name}
RowsContaining(stock_info, name) ==
    {i \in DOMAIN stock_info : contains(stock_info[i].name, name)}
FirstOf(stock_info, rows) ==
    stock_info[CHOOSE i \in rows : \A j \in rows : i <= j].code
\* the directory the call got for its first market, when it got one
DomesticDirectory(l) ==
    IF l.searched # <<>> /\ l.searched[1].market = "a" /\ ~l.searched[1].raised
    THEN l.searched[1].stock_info ELSE <<>>

PolicyAsStated(stock_info, name, market) ==
    IF RowsNamed(stock_info, name) # {}
    THEN FirstOf(stock_info, RowsNamed(stock_info, name))
    ELSE IF market = "a" /\ RowsNamed(stock_info, <<"X", "D">> \o first_three(name)) # {}
    THEN FirstOf(stock_info, RowsNamed(stock_info, <<"X", "D">> \o first_three(name)))
    ELSE IF RowsContaining(stock_info, name) # {}
    THEN FirstOf(stock_info, RowsContaining(stock_info, name))
    ELSE <<>>
\* the same with the XD rule kept to inputs of at least three characters
PolicyAmended(stock_info, name, market) ==
    IF RowsNamed(stock_info, name) # {}
    THEN FirstOf(stock_info, RowsNamed(stock_info, name))
    ELSE IF /\ market = "a" /\ Len(name) >= 3
            /\ RowsNamed(stock_info, <<"X", "D">> \o first_three(name)) # {}
    THEN FirstOf(stock_info, RowsNamed(stock_info, <<"X", "D">> \o first_three(name)))
    ELSE IF RowsContaining(stock_info, name) # {}
    THEN FirstOf(stock_info, RowsContaining(stock_info, name))
    ELSE <<>>

\* what a call must give under a policy: the match of the one market asked
\* for, or the first match in the order 'a', 'hk'; the not-found error when
\* there is none.  A market whose directory could not be loaded has no match.
FollowsPolicy(l, Policy(_, _, _)) ==
    LET match(i) == IF l.searched[i].raised THEN <<>>
                    ELSE Policy(l.searched[i].stock_info, l.stock_name, l.searched[i].market)
    IN  IF l.market_type # "none"
        THEN /\ Len(l.searched) = 1 /\ l.searched[1].market = l.market_type
             /\ ~l.searched[1].raised =>
                   /\ l.result = match(1)
                   /\ l.raised = (IF match(1) = <<>> THEN "ValueError" ELSE "none")
        ELSE /\ l.searched[1].market = "a"
             /\ match(1) # <<>> =>
                   (l.result = match(1) /\ l.market = "a" /\ l.raised = "none")
             /\ match(1) = <<>> =>
                   /\ Len(l.searched) = 2 /\ l.searched[2].market = "hk"
                   /\ match(2) # <<>> =>
                         (l.result = match(2) /\ l.market = "hk" /\ l.raised = "none")
                   /\ match(2) = <<>> => l.raised = "ValueError"

OneBar == <<[date |-> BarDate(1), close |-> 2, super_trend |-> 1]>>
\* a domestic symbol has a long history, any other a single bar
SessionHistory(market_type) == IF market_type = "a" THEN LongHistory(1) ELSE OneBar
SessionFrames(market_type) == {<<>>, SessionHistory(market_type)}
SessionDivergences(df) == DivergenceListsOf(df) \cap {<<>>, <<BullishDivergence>>}

\* lines 31-51: a code is used as it was given, a name is looked up; the
\* ValueError of get_stock_symbol ends the call
resolve_symbol(p, stock_name, netFail) ==
    LET detected == detect_market_type(stock_name)
        looked_up == get_stock_symbol(p, stock_name, "none", netFail)
    IN  IF ~detected.raised
        THEN [resolved |-> "code", symbol |-> stock_name,
              market_type |-> detected.market_type, provider |-> p]
        ELSE IF looked_up.raised = "none"
        THEN [resolved |-> "name", symbol |-> looked_up.result,
              market_type |-> looked_up.market, provider |-> looked_up.provider]
        ELSE [resolved |-> "not_found", symbol |-> <<>>, market_type |-> "none",
              provider |-> looked_up.provider]

\* analyze_stock after the resolution r.  outcome: "none" (returned None),
\* "raised" (an exception left the call) or "chart" (returned the figure and
\* its path); stage: where the call ended.
analyze_stock(r, sd, ti, rd, ts, stock_name, df, divergences_list) ==
    LET base == [stock_name |-> stock_name, symbol |-> r.symbol,
                 market_type |-> r.market_type, resolved |-> r.resolved,
                 provider |-> r.provider]
        unchanged == [sd |-> sd, ti |-> ti, rd |-> rd, ts |-> ts]
        \* after enhance_analysis_with_indicators, whose run raised or returned
        enhanced(run) ==
            [sd |-> save_to_cache(sd, r.symbol, df), ti |-> run.ti, rd |-> run.rd,
             ts |-> run.ts, bars |-> Len(df), stage |-> run.stage,
             outcome |-> IF run.raised THEN "raised" ELSE "chart",
             summary |-> ~run.raised, chart |-> ~run.raised]
    IN  IF r.resolved = "not_found"
        THEN base @@ unchanged @@
             [bars |-> 0, stage |-> "resolution", outcome |-> "none",
              summary |-> FALSE, chart |-> FALSE]
        ELSE IF df = <<>>
        THEN base @@ unchanged @@
             [bars |-> 0, stage |-> "fetch", outcome |-> "none",
              summary |-> FALSE, chart |-> FALSE]
        ELSE base @@ enhanced(calculate_and_store_indicators(ti, rd, ts, r.symbol, df,
                                                             divergences_list))

\* mutant: a failed analysis ends the loop
after_analysis_Stop(outcome, answer) ==
    IF outcome = "chart" /\ answer = "y" THEN "prompt" ELSE "ended"

\* main, after analyze_stock: a result leads to the continue question, whose
\* answer other than yes ends the loop; None is reported and an exception is
\* caught (`except Exception: continue`), and the loop prompts again
after_analysis(outcome, answer) ==
    IF outcome = "chart" THEN (IF answer = "y" THEN "prompt" ELSE "ended")
    ELSE "prompt"

\* ---------------------------------------------------------------------------
\* Specification of a session
\* ---------------------------------------------------------------------------
DefaultStock == <<"A", "B", "C", "D">>
Quit == {<<"q">>, <<"0">>}
\* what is typed at the prompt, or passed to analyze_stock by another caller
SessionInputs ==
    { <<"6","0","0","0","0","7">>, <<"0","0","7","0","0">>, <<" ","0","0","7","0","0">>,
      <<"6","0","7","0","0">>, <<"A","B","C","D">>, <<"Z","Z">> }

InitSession ==
    /\ StoreIdle
    /\ rsi_call = NoRsiCall /\ divergence_call = NoDivergenceCall
    /\ ResolveIdle
    /\ session = NoSession
    /\ FunctionsIdle

\* main starts: initialize_system preloads both directories; when that fails
\* main returns before its loop
InitializeSystem ==
    /\ session.pc = "start"
    /\ session.analysis = NoAnalysis
    /\ \E netFail \in BOOLEAN :
          LET a == get_stock_info(provider, "a", netFail)
              hk == get_stock_info(a.provider, "hk", netFail)
          IN  /\ provider' = IF a.raised THEN a.provider ELSE hk.provider
              /\ session' = [session EXCEPT
                                !.pc = IF a.raised \/ hk.raised THEN "not_started"
                                       ELSE "prompt"]
    /\ UNCHANGED <<cacheVars, indicatorVars, signalVars, rsi_call, divergence_call, lookup, functionVars>>

\* the record of an analyze_stock call
Analysis(out) ==
    [seq |-> 1 - session.analysis.seq, stock_name |-> out.stock_name,
     symbol |-> out.symbol, market_type |-> out.market_type, resolved |-> out.resolved,
     bars |-> out.bars, stage |-> out.stage, outcome |-> out.outcome,
     summary |-> out.summary, chart |-> out.chart]

\* the answers the continue question can get; it is asked only after a result
Answers(outcome) == IF outcome = "chart" THEN {"y", "n"} ELSE {"none"}

\* one pass of `while True`: the prompt is answered by an interrupt, by a
\* failing read, by the quit input, or by a name or code (nothing stands for
\* the default stock), which is analysed
MainLoopPass ==
    /\ session.pc = "prompt"
    /\ \/ /\ session' = [session EXCEPT !.pc = "ended", !.event = "interrupt",
                                        !.answer = "none"]
          /\ UNCHANGED <<provider, stock_data, technical_indicators, rsi_divergences,
                         trend_signals>>
       \/ /\ session.event # "error"
          /\ session' = [session EXCEPT !.event = "error", !.answer = "none"]
          /\ UNCHANGED <<provider, stock_data, technical_indicators, rsi_divergences,
                         trend_signals>>
       \/ \E typed \in Quit :
             /\ session' = [session EXCEPT !.pc = "ended", !.event = "quit",
                                           !.answer = "none"]
             /\ UNCHANGED <<provider, stock_data, technical_indicators, rsi_divergences,
                            trend_signals>>
       \/ \E typed \in SessionInputs \cup {<<>>}, netFail \in BOOLEAN :
             LET user_input == strip(typed)
                 stock_name == IF user_input = <<>> THEN DefaultStock ELSE user_input
             IN  \E r \in {resolve_symbol(provider, stock_name, netFail)} :
                  \E df \in SessionFrames(r.market_type) :
                   \E divergences_list \in SessionDivergences(df) :
                    \E out \in {analyze_stock(r, stock_data, technical_indicators,
                                    rsi_divergences, trend_signals, stock_name, df,
                                    divergences_list)} :
                       \E answer \in Answers(out.outcome) :
                        /\ provider' = out.provider
                        /\ stock_data' = out.sd
                        /\ technical_indicators' = out.ti
                        /\ rsi_divergences' = out.rd
                        /\ trend_signals' = out.ts
                        /\ session' = [pc |-> after_analysis(out.outcome, answer),
                                       event |-> "typed", answer |-> answer,
                                       analysis |-> Analysis(out)]
    /\ UNCHANGED <<today, published, trading_calendar, lastCall, latest, lastSave, lastOp>>
    /\ UNCHANGED <<signalVars, rsi_call, divergence_call, lookup, functionVars>>

\* analyze_stock called by another caller than main, with its argument as given
AnalyzeStock ==
    /\ session.pc = "start"
    /\ \E stock_name \in SessionInputs, netFail \in BOOLEAN :
          \E r \in {resolve_symbol(provider, stock_name, netFail)} :
           \E df \in SessionFrames(r.market_type) :
            \E divergences_list \in SessionDivergences(df) :
             \E out \in {analyze_stock(r, stock_data, technical_indicators,
                             rsi_divergences, trend_signals, stock_name, df,
                             divergences_list)} :
                    /\ provider' = out.provider
                    /\ stock_data' = out.sd
                    /\ technical_indicators' = out.ti
                    /\ rsi_divergences' = out.rd
                    /\ trend_signals' = out.ts
                    /\ session' = [session EXCEPT !.event = "call", !.answer = "none",
                                                  !.analysis = Analysis(out)]
    /\ UNCHANGED <<today, published, trading_calendar, lastCall, latest, lastSave, lastOp>>
    /\ UNCHANGED <<signalVars, rsi_call, divergence_call, lookup, functionVars>>

NextSession == InitializeSystem \/ MainLoopPass \/ AnalyzeStock
SpecSession == InitSession /\ [][NextSession]_vars

IsAnalysis == session.analysis # NoAnalysis
AllDigits(s) == \A i \in DOMAIN s : s[i] \in {"0", "5", "6", "7"}
HKCode(s) == Len(s) = 5 /\ AllDigits(s) /\ s[1] = "0"
ACode(s) == Len(s) = 6 /\ AllDigits(s)
\* what analyze_stock did with its argument, when code stands for the string
\* the conventions are applied to
Classified(code) ==
    LET a == session.analysis
    IN  /\ HKCode(code) =>
            a.resolved = "code" /\ a.market_type = "hk" /\ a.symbol = a.stock_name
        /\ ACode(code) =>
            a.resolved = "code" /\ a.market_type = "a" /\ a.symbol = a.stock_name
        /\ ~(HKCode(code) \/ ACode(code)) => a.resolved \in {"name", "not_found"}

\* C18 as stated: five digits starting with 0 are a Hong Kong code, six digits a
\* domestic code, and the argument is then the symbol; every other argument
\* fails the classification and is resolved by name
C18_Original == IsAnalysis => Classified(session.analysis.stock_name)

\* C18: the conventions are applied to the argument with the whitespace around
\* it removed: five digits starting with 0 are a Hong Kong code, six digits a
\* domestic code, and the argument as it was given is then the symbol; every
\* other argument is resolved by name
C18_CodeClassification == IsAnalysis => Classified(strip(session.analysis.stock_name))

\* a code given with a leading blank was classified and used as it was given
C18_Witness ==
    /\ session.analysis.stock_name = <<" ", "0", "0", "7", "0", "0">>
    /\ session.analysis.resolved = "code"
    /\ session.analysis.market_type = "hk"
    /\ session.analysis.symbol = <<" ", "0", "0", "7", "0", "0">>

\* this step is a call of analyze_stock
IsAnalyzeStep == session'.analysis.seq # session.analysis.seq
\* the call ended at the resolution (not found) or at the fetch (no bars)
FailedForSecurity(a) == a.stage \in {"resolution", "fetch"}
IndicatorTables == <<technical_indicators, rsi_divergences, trend_signals>>

WriteStages == <<"save_technical_indicators", "save_rsi_divergences", "save_trend_signals">>
\* the tables written after the k-th write of a run
LaterTables(k) ==
    IF k = 1 THEN <<rsi_divergences, trend_signals>>
    ELSE IF k = 2 THEN <<trend_signals>> ELSE <<>>

-----------------------------------------------------------------------------
(* volume_indicators: calculate_volume_indicators                          *)
\* A frame is a sequence of rows [date, open, high, close, volume] (columns
\* 日期, 开盘, 最高, 收盘, 成交量), prices and volumes positive integers.  The
\* comparisons of ratios with 0.9, 1.5, 2.0 and 3.5 are made exactly, by cross
\* multiplication.

SetMax(S) == CHOOSE x \in S : \A y \in S : y <= x
SetMin(S) == CHOOSE x \in S : \A y \in S : x <= y
\* rolling(window, min_periods=1) at row i: the rows i-window+1 .. i that exist
rolling(i, window) == (IF i > window THEN i - window + 1 ELSE 1)..i

\* mutant: the maximum over the whole history so far
vol_20d_max_Expanding(data, i) == SetMax({data[k].volume : k \in 1..i})

vol_20d_sum(data, i) == SumTo([k \in 1..i |-> IF k \in rolling(i, 20) THEN data[k].volume ELSE 0], i)
vol_20d_max(data, i) == SetMax({data[k].volume : k \in rolling(i, 20)})
vol_50d_min(data, i) == SetMin({data[k].volume : k \in rolling(i, 50)})
high_20d_max(data, i) == SetMax({data[k].high : k \in rolling(i, 20)})

\* (close / high_20d_max) > 0.9
near_20d_high(data, i) == 10 * data[i].close > 9 * high_20d_max(data, i)
is_vol_20d_max(data, i) == data[i].volume = vol_20d_max(data, i)
\* prev_close is NaN at the first row, and a comparison with NaN is False
daily_gain_over(data, i) == i > 1 /\ 1000 * data[i].close > 1015 * data[i - 1].close
intraday_gain_over(data, i) == 100 * data[i].close > 102 * data[i].open
price_condition(data, i) == daily_gain_over(data, i) /\ intraday_gain_over(data, i)

is_high_vol_bar(data, i) ==
    near_20d_high(data, i) /\ is_vol_20d_max(data, i) /\ price_condition(data, i)
\* volume > 3.5 * vol_20d_avg
is_sky_vol_bar(data, i) ==
    /\ is_high_vol_bar(data, i)
    /\ 2 * data[i].volume * Cardinality(rolling(i, 20)) > 7 * vol_20d_sum(data, i)
is_low_vol_bar(data, i) == data[i].volume = vol_50d_min(data, i)

calculate_volume_indicators(df) ==
    LET flagged(data) ==
            [i \in DOMAIN data |->
                [date |-> data[i].date, volume |-> data[i].volume,
                 vol_20d_max |-> vol_20d_max(data, i),
                 vol_50d_min |-> vol_50d_min(data, i),
                 near_20d_high |-> near_20d_high(data, i),
                 is_vol_20d_max |-> is_vol_20d_max(data, i),
                 price_condition |-> price_condition(data, i),
                 is_high_vol_bar |-> is_high_vol_bar(data, i),
                 is_sky_vol_bar |-> is_sky_vol_bar(data, i),
                 is_low_vol_bar |-> is_low_vol_bar(data, i)]]
    IN  flagged(sort_values(df))

\* ---------------------------------------------------------------------------
\* Specification of calculate_volume_indicators.  A frame has 2 or VolBars
\* bars: a first bar, level bars of volume 2 at price 100, and two last bars,
\* each with a volume of Volumes and a price move of PriceMoves.
\* ---------------------------------------------------------------------------
VolBars == 22
Volumes == {1, 2, 9}
\* level; up on the day and within it; up on the day only; up within the day
\* only; up but far below the high of the day
PriceMoves ==
    { [open |-> 100, high |-> 100, close |-> 100],
      [open |-> 100, high |-> 103, close |-> 103],
      [open |-> 103, high |-> 103, close |-> 103],
      [open |-> 97,  high |-> 100, close |-> 100],
      [open |-> 100, high |-> 120, close |-> 103] }
VolumeBar(i, volume, move) ==
    [date |-> i, open |-> move.open, high |-> move.high, close |-> move.close,
     volume |-> volume]
LevelBar(i) == [date |-> i, open |-> 100, high |-> 100, close |-> 100, volume |-> 2]
VolumeFrame(n, first, v1, m1, v2, m2) ==
    [i \in 1..n |->
        IF i = n THEN VolumeBar(i, v2, m2)
        ELSE IF i = n - 1 THEN VolumeBar(i, v1, m1)
        ELSE IF i = 1 THEN [LevelBar(i) EXCEPT !.volume = first]
        ELSE LevelBar(i)]
VolumeFrames ==
    {VolumeFrame(n, first, v1, m1, v2, m2) :
        n \in {2, VolBars}, first \in Volumes, v1 \in Volumes, m1 \in PriceMoves,
        v2 \in Volumes, m2 \in PriceMoves}

InitVolume ==
    /\ StoreIdle
    /\ rsi_call = NoRsiCall /\ divergence_call = NoDivergenceCall
    /\ ResolveIdle
    /\ session = NoSession
    /\ summary_call = NoSummaryCall /\ refresh_call = NoRefreshCall /\ PureIdle
    /\ volume_call \in {[df |-> df, state |-> "called", data |-> <<>>] : df \in VolumeFrames}

CalculateVolumeIndicators ==
    /\ volume_call.state = "called"
    /\ volume_call' = [volume_call EXCEPT !.state = "returned",
                                          !.data = calculate_volume_indicators(volume_call.df)]
    /\ UNCHANGED <<cacheVars, indicatorVars, signalVars, rsi_call, divergence_call,
                   provider, lookup, session, summary_call, refresh_call,
                   validity_call, extrema_call>>

NextVolume == CalculateVolumeIndicators
SpecVolume == InitVolume /\ [][NextVolume]_vars

VolumeDone == volume_call.state = "returned"

\* C21 as stated: no bar of the result is flagged both low-volume and
\* high-volume
C21_Original ==
    VolumeDone =>
        \A i \in DOMAIN volume_call.data :
            ~(volume_call.data[i].is_low_vol_bar /\ volume_call.data[i].is_high_vol_bar)

\* the last n rows up to row i
LastRows(i, n) == {k \in 1..i : k > i - n}
GainsMet(df, i) ==
    /\ i > 1
    /\ 1000 * df[i].close > 1015 * df[i - 1].close
    /\ 100 * df[i].close > 102 * df[i].open
HighVolumeAsDefined(df, i) ==
    /\ \A k \in LastRows(i, 20) : df[k].volume <= df[i].volume
    /\ \A k \in LastRows(i, 20) : 10 * df[i].close > 9 * df[k].high
    /\ GainsMet(df, i)

\* C22: a bar is flagged high-volume exactly when its volume is the greatest of
\* the last 20 bars, its close is above 0.9 of the highest high of the last 20
\* bars, and it gained more than 1.5% on the day before and more than 2.0% on
\* its open; a bar whose volume is the least of the last 50 bars and which fails
\* the gains is flagged low-volume and not high-volume; a spike is flagged only
\* on a high-volume bar
C22_HighVolumeDefinition ==
    VolumeDone =>
        \A i \in DOMAIN volume_call.data :
            LET df == volume_call.df
                row == volume_call.data[i]
            IN  /\ row.is_high_vol_bar <=> HighVolumeAsDefined(df, i)
                /\ ((\A k \in LastRows(i, 50) : df[i].volume <= df[k].volume)
                      /\ ~GainsMet(df, i))
                       => (row.is_low_vol_bar /\ ~row.is_high_vol_bar)
                /\ row.is_sky_vol_bar => row.is_high_vol_bar

\* a bar past the 20th is flagged high-volume though an earlier bar, out of its
\* window, had more volume; another bar is flagged low-volume only
C22_Witness ==
    /\ VolumeDone
    /\ \E i \in DOMAIN volume_call.data :
          /\ i > 20
          /\ volume_call.data[i].is_high_vol_bar
          /\ volume_call.df[1].volume > volume_call.df[i].volume
    /\ \E i \in DOMAIN volume_call.data :
          volume_call.data[i].is_low_vol_bar /\ ~volume_call.data[i].is_high_vol_bar

-----------------------------------------------------------------------------
(* stock_cache: get_latest_indicators                                      *)
\* Here the rows of the indicator tables carry every column of their schema, and
\* a cell is a pair of its kind and its value, since SQLite hands a cell back
\* as it was stored whatever the name it is read under: TEXT, DATE (a text
\* 'YYYY-MM-DD', held as its day number: the texts order as the days do), REAL,
\* INTEGER.
Text(s) == <<"TEXT", s>>
Date(d) == <<"DATE", d>>
Real(x) == <<"REAL", x>>
Integer(n) == <<"INTEGER", n>>
Null == <<"NULL", 0>>

\* CREATE TABLE technical_indicators / rsi_divergences / trend_signals: the
\* columns in their order, which is the order of the cells of SELECT *
technical_indicators_columns ==
    <<"id", "symbol", "stock_name", "date", "rsi14", "ma10", "daily_change_pct", "trend",
      "upper_band", "lower_band", "volume", "vol_ratio", "created_at", "updated_at">>
rsi_divergences_columns ==
    <<"id", "symbol", "stock_name", "date", "prev_date", "type", "timeframe", "rsi_change",
      "price_change", "confidence", "current_rsi", "prev_rsi", "current_price",
      "prev_price", "created_at">>
trend_signals_columns ==
    <<"id", "symbol", "stock_name", "date", "signal_type", "price", "trend_value",
      "created_at">>

\* the names get_latest_indicators zips the cells of a divergence row with
\* (lines 625-629), and those it zips a trend signal row with (lines 631-633)
recent_divergences_keys ==
    <<"symbol", "stock_name", "date", "prev_date", "type", "timeframe", "rsi_change",
      "price_change", "confidence", "current_rsi", "prev_rsi", "current_price",
      "prev_price", "created_at">>
recent_trend_signals_keys ==
    <<"id", "symbol", "stock_name", "date", "signal_type", "price", "trend_value",
      "created_at">>

\* dict(zip(keys, row)) for a row fetched with the given columns: the k-th key
\* names the k-th cell, as far as both go
dict_zip(keys, columns, row) ==
    LET n == IF Len(keys) < Len(columns) THEN Len(keys) ELSE Len(columns)
    IN  [key \in {keys[k] : k \in 1..n} |->
            row[columns[CHOOSE k \in 1..n : keys[k] = key]]]

\* ORDER BY ... DESC ... LIMIT n: the results the query can give, rows that tie
\* in the order coming in any order
Limited(rows, n) == IF Cardinality(rows) < n THEN Cardinality(rows) ELSE n
\* ORDER BY date DESC, confidence DESC
divergence_before(r, q) ==
    r.date[2] > q.date[2] \/ (r.date[2] = q.date[2] /\ r.confidence[2] >= q.confidence[2])
\* ORDER BY date DESC
date_before(r, q) == r.date[2] >= q.date[2]

\* mutant: the first three divergences of the symbol, whatever their confidence
select_divergences_AnyConfidence(table, symbol) ==
    LET rows == {r \in table : r.symbol = Text(symbol)}
    IN  {s \in [1..Limited(rows, 3) -> rows] :
            /\ \A i, j \in DOMAIN s : i < j => (s[i] # s[j] /\ divergence_before(s[i], s[j]))
            /\ \A r \in rows \ Range(s) : \A i \in DOMAIN s : divergence_before(s[i], r)}
\* lines 599-604
select_divergences(table, symbol) ==
    LET rows == {r \in table : r.symbol = Text(symbol) /\ r.confidence[2] >= 50}
    IN  {s \in [1..Limited(rows, 3) -> rows] :
            /\ \A i, j \in DOMAIN s : i < j => (s[i] # s[j] /\ divergence_before(s[i], s[j]))
            /\ \A r \in rows \ Range(s) : \A i \in DOMAIN s : divergence_before(s[i], r)}
\* lines 609-614
select_trend_signals(table, symbol) ==
    LET rows == {r \in table : r.symbol = Text(symbol)}
    IN  {s \in [1..Limited(rows, 5) -> rows] :
            /\ \A i, j \in DOMAIN s : i < j => (s[i] # s[j] /\ date_before(s[i], s[j]))
            /\ \A r \in rows \ Range(s) : \A i \in DOMAIN s : date_before(s[i], r)}
\* lines 582-589: the row of the symbol with the greatest date, with the close
\* of the bar of that day, NULL when stock_data has none
select_latest_indicator(ti, sd, symbol) ==
    LET rows == {r \in ti : r.symbol = Text(symbol)}
        t == CHOOSE r \in rows : \A q \in rows : r.date[2] >= q.date[2]
        joined == {b \in sd : b.symbol = symbol /\ b.date = t.date[2]}
    IN  IF rows = {} THEN <<>>
        ELSE t @@ [close_price |-> IF joined = {} THEN Null
                                   ELSE Real((CHOOSE b \in joined : TRUE).close)]

\* get_latest_indicators for given results of its second and third query;
\* <<>> stands for None
get_latest_indicators(ti, sd, symbol, divergences, signals) ==
    LET summary(latest_data) ==
            [stock_name |-> latest_data.stock_name,
             latest_date |-> latest_data.date,
             calculation_time |-> latest_data.updated_at,
             current_indicators |-> latest_data,
             recent_divergences |->
                 [i \in DOMAIN divergences |->
                     dict_zip(recent_divergences_keys, rsi_divergences_columns,
                              divergences[i])],
             recent_trend_signals |->
                 [i \in DOMAIN signals |->
                     dict_zip(recent_trend_signals_keys, trend_signals_columns, signals[i])]]
    IN  IF {r \in ti : r.symbol = Text(symbol)} = {} THEN <<>>
        ELSE <<summary(select_latest_indicator(ti, sd, symbol))>>

\* ---------------------------------------------------------------------------
\* Specification of get_latest_indicators.  The database holds rows of earlier
\* runs: any of the rows below, which keep UNIQUE(symbol, date) of
\* technical_indicators and of stock_data.
\* ---------------------------------------------------------------------------
SummarySymbols == {"600007", "00700"}
IndicatorRow(id, symbol, d, rsi14) ==
    [id |-> Integer(id), symbol |-> Text(symbol), stock_name |-> Text("ABCD"),
     date |-> Date(d), rsi14 |-> Real(rsi14), ma10 |-> Real(2), daily_change_pct |-> Real(1),
     trend |-> Integer(1), upper_band |-> Null, lower_band |-> Real(1), volume |-> Real(9),
     vol_ratio |-> Real(1), created_at |-> Date(d), updated_at |-> Date(d + 1)]
DivergenceRow(id, symbol, d, type, confidence) ==
    [id |-> Integer(id), symbol |-> Text(symbol), stock_name |-> Text("ABCD"),
     date |-> Date(d), prev_date |-> Date(d - 10), type |-> Text(type),
     timeframe |-> Text("short"), rsi_change |-> Real(-5), price_change |-> Real(2),
     confidence |-> Real(confidence), current_rsi |-> Real(60), prev_rsi |-> Real(65),
     current_price |-> Real(102), prev_price |-> Real(100), created_at |-> Date(d + 1)]
SignalRow(id, symbol, d, signal_type) ==
    [id |-> Integer(id), symbol |-> Text(symbol), stock_name |-> Text("ABCD"),
     date |-> Date(d), signal_type |-> Text(signal_type), price |-> Real(100),
     trend_value |-> Real(99), created_at |-> Date(d + 1)]

IndicatorRows ==
    { IndicatorRow(1, "600007", FirstDay + 1, 55), IndicatorRow(2, "600007", FirstDay + 2, 60),
      IndicatorRow(3, "00700", FirstDay + 2, 45) }
\* two rows tie in date and confidence, one is below 50, one is at 50
DivergenceRows ==
    { DivergenceRow(1, "600007", FirstDay + 2, "bullish", 80),
      DivergenceRow(2, "600007", FirstDay + 2, "bearish", 80),
      DivergenceRow(3, "600007", FirstDay + 1, "bearish", 60),
      DivergenceRow(4, "600007", FirstDay + 3, "bullish", 40),
      DivergenceRow(5, "600007", FirstDay, "bullish", 50),
      DivergenceRow(6, "00700", FirstDay + 3, "bearish", 90) }
\* no divergence, one, or all but at most one of the rows
DivergenceTables ==
    {table \in SUBSET DivergenceRows :
        Cardinality(table) <= 1 \/ Cardinality(DivergenceRows \ table) <= 1}
SignalTables ==
    { {}, {SignalRow(1, "600007", FirstDay, "buy"), SignalRow(2, "00700", FirstDay, "sell")},
      {SignalRow(k, "600007", FirstDay + k, IF k % 2 = 1 THEN "buy" ELSE "sell") : k \in 1..6} }
BarTables == { {}, {[symbol |-> "600007", date |-> FirstDay + 2, close |-> 2]} }

InitSummary ==
    /\ today = FirstDay /\ published = {} /\ trading_calendar = {}
    /\ lastCall = NoCall /\ latest = NoLatest /\ lastSave = NoSave
    /\ lastOp = NoOp /\ enhanced_df = <<>> /\ signals_list = Pending
    /\ rsi_call = NoRsiCall /\ divergence_call = NoDivergenceCall
    /\ ResolveIdle
    /\ session = NoSession
    /\ volume_call = NoVolumeCall /\ refresh_call = NoRefreshCall /\ PureIdle
    /\ summary_call = NoSummaryCall
    /\ stock_data \in BarTables
    /\ technical_indicators \in SUBSET IndicatorRows
    /\ rsi_divergences \in DivergenceTables
    /\ trend_signals \in SignalTables

GetLatestIndicators ==
    /\ \E symbol \in SummarySymbols :
        \E divergences \in select_divergences(rsi_divergences, symbol) :
         \E signals \in select_trend_signals(trend_signals, symbol) :
            summary_call' =
                [symbol |-> symbol, state |-> "returned",
                 result |-> get_latest_indicators(technical_indicators, stock_data, symbol,
                                                  divergences, signals)]
    /\ UNCHANGED <<cacheVars, indicatorVars, signalVars, rsi_call, divergence_call,
                   provider, lookup, session, volume_call, refresh_call,
                   validity_call, extrema_call>>

NextSummary == GetLatestIndicators
SpecSummary == InitSummary /\ [][NextSummary]_vars

SummaryDone == summary_call.state = "returned"
SummaryGiven == SummaryDone /\ summary_call.result # <<>>
RowsOfSymbol(table) == {r \in table : r.symbol = Text(summary_call.symbol)}
\* an entry of the summary made of cells of a stored row
MadeOf(entry, row) == \A key \in DOMAIN entry : \E column \in DOMAIN row : entry[key] = row[column]
\* an entry carrying each column of a stored row under its name
SameNamed(entry, row, keys) == \A k \in DOMAIN keys : entry[keys[k]] = row[keys[k]]
\* a sequence of distinct rows of `rows`, none before a row of a later date,
\* holding the `n` of them with the greatest dates (all of them if fewer)
NewestFirst(seq, rows, n) ==
    /\ Len(seq) = (IF Cardinality(rows) < n THEN Cardinality(rows) ELSE n)
    /\ \A i \in DOMAIN seq : seq[i] \in rows
    /\ \A i, j \in DOMAIN seq : i < j => (seq[i] # seq[j] /\ seq[i].date[2] >= seq[j].date[2])
    /\ \A r \in rows : (\A i \in DOMAIN seq : seq[i] # r) =>
                           \A i \in DOMAIN seq : seq[i].date[2] >= r.date[2]

\* C23: the summary is None exactly when the symbol has no indicator row;
\* otherwise its current indicators are the cells of the symbol's indicator row
\* of the greatest date, its recent divergences are made of at most 3 stored
\* divergences of the symbol of stored confidence 50 or more, newest first, and
\* its recent trend signals are the at most 5 newest trend signals of the
\* symbol, newest first
C23_IndicatorSummary ==
    SummaryDone =>
        /\ summary_call.result = <<>> <=> RowsOfSymbol(technical_indicators) = {}
        /\ summary_call.result # <<>> =>
            LET result == summary_call.result[1]
                confident == {r \in RowsOfSymbol(rsi_divergences) : r.confidence[2] >= 50}
            IN  /\ \E t \in RowsOfSymbol(technical_indicators) :
                      /\ \A q \in RowsOfSymbol(technical_indicators) : t.date[2] >= q.date[2]
                      /\ SameNamed(result.current_indicators, t, technical_indicators_columns)
                /\ \E seq \in [DOMAIN result.recent_divergences -> rsi_divergences] :
                      /\ NewestFirst(seq, confident, 3)
                      /\ \A i \in DOMAIN seq : MadeOf(result.recent_divergences[i], seq[i])
                /\ \E seq \in [DOMAIN result.recent_trend_signals -> trend_signals] :
                      /\ NewestFirst(seq, RowsOfSymbol(trend_signals), 5)
                      /\ \A i \in DOMAIN seq :
                            SameNamed(result.recent_trend_signals[i], seq[i],
                                      trend_signals_columns)

\* a summary that left out a divergence below 50 and a sixth trend signal
C23_Witness ==
    /\ SummaryGiven
    /\ Len(summary_call.result[1].recent_divergences) = 3
    /\ \E r \in RowsOfSymbol(rsi_divergences) : r.confidence[2] < 50
    /\ Len(summary_call.result[1].recent_trend_signals) = 5
    /\ Cardinality(RowsOfSymbol(trend_signals)) = 6

\* C30 as stated: every entry of recent_divergences carries, under each of its
\* field names, the cell of the same-named column of a stored row, with a
\* confidence of at least 50 and a type of bullish or bearish
C30_Original ==
    SummaryGiven =>
        \A i \in DOMAIN summary_call.result[1].recent_divergences :
            LET entry == summary_call.result[1].recent_divergences[i]
            IN  /\ \E r \in rsi_divergences : SameNamed(entry, r, recent_divergences_keys)
                /\ entry.confidence[1] = "REAL" /\ entry.confidence[2] >= 50
                /\ entry.type \in {Text("bullish"), Text("bearish")}

\* ---------------------------------------------------------------------------
\* Specification of _needs_update_with_trading_calendar: any day, a calendar
\* that is empty, complete or fetched some days ago, and any cached bars.
\* ---------------------------------------------------------------------------
RefreshDays == OldDays \cup ModelDays
RefreshCalendars == {{}} \cup {{d \in SinaTradeDates : d <= k} : k \in RefreshDays}
RefreshTables ==
    {{[symbol |-> "000001", date |-> d, close |-> 1] : d \in ds} : ds \in SUBSET RefreshDays}

InitRefresh ==
    /\ published = {} /\ lastCall = NoCall /\ latest = NoLatest /\ lastSave = NoSave
    /\ technical_indicators = {} /\ rsi_divergences = {} /\ trend_signals = {}
    /\ lastOp = NoOp /\ enhanced_df = <<>> /\ signals_list = Pending
    /\ rsi_call = NoRsiCall /\ divergence_call = NoDivergenceCall
    /\ ResolveIdle
    /\ session = NoSession
    /\ volume_call = NoVolumeCall /\ summary_call = NoSummaryCall /\ PureIdle
    /\ refresh_call = NoRefreshCall
    /\ today \in ModelDays
    /\ trading_calendar \in RefreshCalendars
    /\ stock_data \in RefreshTables

NeedsUpdateWithTradingCalendar ==
    /\ \E symbol \in Symbols :
          LET nu == needs_update_with_trading_calendar(stock_data, trading_calendar,
                                                       symbol, today)
          IN  refresh_call' = [symbol |-> symbol, state |-> "returned",
                               need |-> nu.need, last |-> nu.last]
    /\ UNCHANGED <<cacheVars, indicatorVars, signalVars, rsi_call, divergence_call,
                   provider, lookup, session, volume_call, summary_call,
                   validity_call, extrema_call>>

NextRefresh == NeedsUpdateWithTradingCalendar
SpecRefresh == InitRefresh /\ [][NextRefresh]_vars

RefreshDone == refresh_call.state = "returned"
CachedDates == {r.date : r \in {x \in stock_data : x.symbol = refresh_call.symbol}}
KnownTradingDays == {d \in trading_calendar : d <= today}

\* C24: with no cached bar the answer is (true, none); with cached bars and a
\* trading day known on or before today, the answer is true exactly when the
\* last cached date is before the most recent such trading day, and it carries
\* the last cached date; so a cache reaching the last trading day needs no
\* refresh on a non-trading day
C24_RefreshDecision ==
    RefreshDone =>
        /\ CachedDates = {} => (refresh_call.need /\ refresh_call.last = NoDate)
        /\ (CachedDates # {} /\ KnownTradingDays # {}) =>
              /\ refresh_call.last = SetMax(CachedDates)
              /\ refresh_call.need <=> SetMax(CachedDates) < SetMax(KnownTradingDays)
        /\ (today \notin trading_calendar /\ KnownTradingDays # {}
              /\ CachedDates # {} /\ SetMax(CachedDates) >= SetMax(KnownTradingDays))
             => ~refresh_call.need

\* on a non-trading day, a cache that ends on the last trading day, which is
\* before today, was found up to date
C24_Witness ==
    /\ RefreshDone
    /\ today \notin trading_calendar
    /\ KnownTradingDays # {} /\ CachedDates # {}
    /\ SetMax(CachedDates) = SetMax(KnownTradingDays)
    /\ SetMax(CachedDates) < today
    /\ ~refresh_call.need

\* ---------------------------------------------------------------------------
\* Specification of is_valid_divergence: a pair of extrema at positions 0 and
\* 2 with one bar between them.  Prices are in thousandths of the first one,
\* RSI values in tenths.
\* ---------------------------------------------------------------------------
ValidityPrices ==
    {<<1000, mid, current>> : mid \in {1000, 1020, 1030}, current \in {998, 1000, 1001, 1002}}
ValidityRsi ==
    {<<prev, mid, current>> : prev \in {NaN, 400, 540, 600, 700, 950},
                              mid \in {200, 500, 620, 660},
                              current \in {NaN, 300, 410, 560, 596, 597}}

InitValidity ==
    /\ StoreIdle
    /\ rsi_call = NoRsiCall /\ divergence_call = NoDivergenceCall
    /\ ResolveIdle
    /\ session = NoSession
    /\ volume_call = NoVolumeCall /\ summary_call = NoSummaryCall
    /\ refresh_call = NoRefreshCall /\ extrema_call = NoExtremaCall
    /\ validity_call \in
          {[price_data |-> price, rsi_data |-> rsi, divergence_type |-> type,
            timeframe |-> Timeframes[t], state |-> "called", valid |-> FALSE] :
              price \in ValidityPrices, rsi \in ValidityRsi,
              type \in {"bearish", "bullish"}, t \in DOMAIN Timeframes}

IsValidDivergence ==
    /\ validity_call.state = "called"
    /\ validity_call' =
          [validity_call EXCEPT
              !.state = "returned",
              !.valid = is_valid_divergence(validity_call.price_data, validity_call.rsi_data,
                            2, 0, validity_call.divergence_type, validity_call.timeframe)]
    /\ UNCHANGED <<cacheVars, indicatorVars, signalVars, rsi_call, divergence_call,
                   provider, lookup, session, volume_call, summary_call, refresh_call,
                   extrema_call>>

NextValidity == IsValidDivergence
SpecValidity == InitValidity /\ [][NextValidity]_vars

BearishDone == validity_call.state = "returned" /\ validity_call.divergence_type = "bearish"
\* an oscillator value (in tenths) that is defined and lies in lo..hi
Within(x, lo, hi) == x # NaN /\ lo <= x /\ x <= hi
SetMaxOr(S, none) == IF S = {} THEN none ELSE SetMax(S)
\* the conditions of a bearish divergence that the two statements share
BearishBasics(price, osc, timeframe) ==
    /\ 1000 * price[3] > 1001 * price[1]
    /\ osc[3] # NaN /\ osc[1] # NaN /\ 1000 * osc[3] < 995 * osc[1]
    /\ SetMaxOr({osc[k] : k \in 1..3} \ {NaN}, 0)
          >= (IF timeframe = "short" THEN 600 ELSE 650)
    /\ timeframe = "medium" => 100 * price[3] >= 98 * SetMax({price[k] : k \in 1..3})

\* C25 as stated: a peak pair is accepted as bearish exactly when the price
\* rose by more than 0.1%, the oscillator fell by more than 0.5%, at least one
\* of the two oscillator values lies in [55, 90], the oscillator's maximum over
\* the interval reaches 60 (short) or 65 (medium, long) and, for the medium
\* timeframe, the current price is at least 98% of the interval's maximum
C25_Original ==
    BearishDone =>
        (validity_call.valid <=>
            /\ BearishBasics(validity_call.price_data, validity_call.rsi_data,
                             validity_call.timeframe)
            /\ \/ Within(validity_call.rsi_data[3], 550, 900)
               \/ Within(validity_call.rsi_data[1], 550, 900))

\* ---------------------------------------------------------------------------
\* Specification of find_peaks_troughs: short series over three price levels,
\* with windows and minimum distances small enough for several windows to fit
\* and for the step to be 1 or 2.
\* ---------------------------------------------------------------------------
MaxExtremaBars == 6
ExtremaLevels == {1, 2, 3}
ExtremaSeries == UNION {[1..n -> ExtremaLevels] : n \in {2, MaxExtremaBars}}
ExtremaWindows == {1, 3, 4}
ExtremaDistances == {0, 1, 2, 3, 6}

InitExtrema ==
    /\ StoreIdle
    /\ rsi_call = NoRsiCall /\ divergence_call = NoDivergenceCall
    /\ ResolveIdle
    /\ session = NoSession
    /\ volume_call = NoVolumeCall /\ summary_call = NoSummaryCall
    /\ refresh_call = NoRefreshCall /\ validity_call = NoValidityCall
    /\ extrema_call \in
          {[series |-> series, window |-> window, min_distance |-> min_distance,
            state |-> "called", peaks |-> <<>>, troughs |-> <<>>] :
              series \in ExtremaSeries, window \in ExtremaWindows,
              min_distance \in ExtremaDistances}

FindPeaksTroughs ==
    /\ extrema_call.state = "called"
    /\ \E out \in {find_peaks_troughs(extrema_call.series, extrema_call.window,
                                      extrema_call.min_distance)} :
          extrema_call' = [extrema_call EXCEPT !.state = "returned",
                                               !.peaks = out.peaks,
                                               !.troughs = out.troughs]
    /\ UNCHANGED <<cacheVars, indicatorVars, signalVars, rsi_call, divergence_call,
                   provider, lookup, session, volume_call, summary_call, refresh_call,
                   validity_call>>

NextExtrema == FindPeaksTroughs
SpecExtrema == InitExtrema /\ [][NextExtrema]_vars

ExtremaDone == extrema_call.state = "returned"
\* the window starts the scan visits: multiples of the step that leave room
\* for a whole window
WindowStarts(n, window, min_distance) ==
    {start \in 0..(n - window) :
        start % (IF min_distance \div 3 > 1 THEN min_distance \div 3 ELSE 1) = 0}
\* position p holds the first greatest (sign = 1) or first least (sign = -1)
\* value of the window that begins at start
WindowExtreme(series, window, start, p, sign) ==
    /\ p \in start..(start + window - 1)
    /\ \A q \in start..(start + window - 1) :
          /\ sign * series[q + 1] <= sign * series[p + 1]
          /\ q < p => sign * series[q + 1] < sign * series[p + 1]
\* the acceptance conditions that do not involve earlier extrema
Acceptable(series, window, min_distance, p, sign) ==
    /\ p > 0 /\ p < Len(series) - 1
    /\ sign * series[p + 1] >= sign * series[p]
    /\ sign * series[p + 1] >= sign * series[p + 2]
    /\ \E start \in WindowStarts(Len(series), window, min_distance) :
          /\ WindowExtreme(series, window, start, p, sign)
          /\ start + window \div 4 <= p
          /\ p <= start + (3 * window) \div 4
AcceptanceRule(list, series, window, min_distance, sign) ==
    /\ \A k \in DOMAIN list :
          /\ Acceptable(series, window, min_distance, list[k], sign)
          /\ k > 1 => list[k] - list[k - 1] >= min_distance
    /\ \A p \in 0..(Len(series) - 1) :
          Acceptable(series, window, min_distance, p, sign) =>
              \/ \E k \in DOMAIN list : list[k] = p
              \/ \E k \in DOMAIN list : list[k] <= p /\ p - list[k] < min_distance

\* C26: every returned peak is the maximum of a window the scan visits (window
\* starts are multiples of max(1, min_distance \div 3)), lies in that window's
\* central region [start + window \div 4, start + 3 * window \div 4], is at
\* least min_distance after the peak accepted before it and is not below
\* either neighbour; a window maximum that meets the conditions and is missing
\* from the result is closer than min_distance to an accepted peak before it;
\* the same holds for troughs with the order reversed; a series shorter than
\* the window yields two empty lists
C26_AcceptanceRule ==
    ExtremaDone =>
        /\ AcceptanceRule(extrema_call.peaks, extrema_call.series, extrema_call.window,
                          extrema_call.min_distance, 1)
        /\ AcceptanceRule(extrema_call.troughs, extrema_call.series, extrema_call.window,
                          extrema_call.min_distance, -1)
        /\ Len(extrema_call.series) < extrema_call.window =>
              extrema_call.peaks = <<>> /\ extrema_call.troughs = <<>>
\* a call that returned a peak and a trough, and skipped a bar that is the
\* maximum of a visited window and not below its neighbours
C26_Witness ==
    /\ ExtremaDone
    /\ extrema_call.window = 4
    /\ Len(extrema_call.peaks) >= 1 /\ Len(extrema_call.troughs) >= 1
    /\ \E p \in 1..(Len(extrema_call.series) - 2) :
          /\ \A k \in DOMAIN extrema_call.peaks : extrema_call.peaks[k] # p
          /\ \E start \in WindowStarts(Len(extrema_call.series), 4,
                                       extrema_call.min_distance) :
                WindowExtreme(extrema_call.series, 4, start, p, 1)
          /\ extrema_call.series[p + 1] >= extrema_call.series[p]
          /\ extrema_call.series[p + 1] >= extrema_call.series[p + 2]

Spaced(list, n, min_distance) ==
    /\ \A k \in DOMAIN list : list[k] > 0 /\ list[k] < n - 1
    /\ \A k \in DOMAIN list :
          k > 1 => list[k - 1] < list[k] /\ list[k] - list[k - 1] >= min_distance
\* C28: each returned list is strictly increasing, consecutive indexes are at
\* least min_distance apart, and neither the first nor the last position of
\* the series is in it
C28_SpacingInvariant ==
    ExtremaDone =>
        /\ Spaced(extrema_call.peaks, Len(extrema_call.series), extrema_call.min_distance)
        /\ Spaced(extrema_call.troughs, Len(extrema_call.series), extrema_call.min_distance)
\* a call with a minimum distance of 2 that returned two peaks exactly 2 apart
\* from a series whose first bar is its highest
C28_Witness ==
    /\ ExtremaDone
    /\ extrema_call.min_distance = 2
    /\ Len(extrema_call.peaks) = 2
    /\ extrema_call.peaks[2] - extrema_call.peaks[1] = 2
    /\ \A k \in DOMAIN extrema_call.series :
          extrema_call.series[k] <= extrema_call.series[1]

\* ---------------------------------------------------------------------------
\* Trend direction and the order of trend signals, over SpecSignals
\* ---------------------------------------------------------------------------
Defined(x) == x # NoValue
\* C27: the direction of every bar is +1 when its close is above its band
\* value, -1 when it is below, 0 when the two are equal or either is undefined;
\* every bar of the history has a direction (no bar is lost to an error), and
\* two bars with the same close and band value have the same direction
\* whatever the bars around them are
C27_DirectionIsPure ==
    /\ \A i \in DOMAIN enhanced_df :
          /\ Defined(enhanced_df[i].close) /\ Defined(enhanced_df[i].super_trend)
             /\ enhanced_df[i].close > enhanced_df[i].super_trend
                => enhanced_df[i].trend = 1
          /\ Defined(enhanced_df[i].close) /\ Defined(enhanced_df[i].super_trend)
             /\ enhanced_df[i].close < enhanced_df[i].super_trend
                => enhanced_df[i].trend = -1
          /\ (\/ ~Defined(enhanced_df[i].close)
              \/ ~Defined(enhanced_df[i].super_trend)
              \/ enhanced_df[i].close = enhanced_df[i].super_trend)
                => enhanced_df[i].trend = 0
    /\ \A i, j \in DOMAIN enhanced_df :
          enhanced_df[i].close = enhanced_df[j].close
          /\ enhanced_df[i].super_trend = enhanced_df[j].super_trend
             => enhanced_df[i].trend = enhanced_df[j].trend
\* a history with a bar above the line, one below it, one whose band value is
\* undefined and one whose close is undefined, after the signals were computed
C27_Witness ==
    /\ signals_list # Pending
    /\ Len(enhanced_df) = MaxBars
    /\ enhanced_df[1].super_trend = NoValue /\ enhanced_df[1].close # NoValue
    /\ enhanced_df[1].trend = 0
    /\ enhanced_df[2].trend = 1 /\ enhanced_df[3].trend = -1
    /\ enhanced_df[MaxBars].close = NoValue /\ enhanced_df[MaxBars].super_trend # NoValue
    /\ enhanced_df[MaxBars].trend = 0

IsSignal(k, signal_type) == signals_list[k].signal_type = signal_type
\* between the signals number j and k of the list there is one of the type
SignalBetween(j, k, signal_type) ==
    \E m \in DOMAIN signals_list : j < m /\ m < k /\ IsSignal(m, signal_type)
\* between the bars of the signals number j and k there is a neutral bar
NeutralBetween(j, k) ==
    \E i \in DOMAIN enhanced_df :
        /\ signals_list[j].date < enhanced_df[i].date
        /\ enhanced_df[i].date < signals_list[k].date
        /\ enhanced_df[i].trend = 0

\* C29 as stated: in the date-ordered list between any two buy signals there
\* is a sell signal and between any two sell signals a buy signal
C29_Original ==
    signals_list # Pending =>
        \A j, k \in DOMAIN signals_list :
            j < k =>
                /\ IsSignal(j, "buy") /\ IsSignal(k, "buy") => SignalBetween(j, k, "sell")
                /\ IsSignal(j, "sell") /\ IsSignal(k, "sell") => SignalBetween(j, k, "buy")
\* C29: the list is in date order, and between any two buy signals there is a
\* sell signal or a neutral bar, between any two sell signals a buy signal or a
\* neutral bar
C29_AlternationUpToNeutral ==
    signals_list # Pending =>
        \A j, k \in DOMAIN signals_list :
            j < k =>
                /\ signals_list[j].date < signals_list[k].date
                /\ IsSignal(j, "buy") /\ IsSignal(k, "buy")
                      => SignalBetween(j, k, "sell") \/ NeutralBetween(j, k)
                /\ IsSignal(j, "sell") /\ IsSignal(k, "sell")
                      => SignalBetween(j, k, "buy") \/ NeutralBetween(j, k)
\* directions +1, 0, +1, -1: two buy signals with only a neutral bar between
\* them, then a sell
C29_Witness ==
    /\ signals_list # Pending
    /\ Len(enhanced_df) = MaxBars
    /\ enhanced_df[1].trend = 1 /\ enhanced_df[2].trend = 0
    /\ enhanced_df[3].trend = 1 /\ enhanced_df[MaxBars].trend = -1
    /\ Len(signals_list) = 3
    /\ IsSignal(1, "buy") /\ IsSignal(2, "buy") /\ IsSignal(3, "sell")

====
